---- MODULE Spec2Model ----
(***************************************************************************)
(* Model of the envelope-encryption core of terraform-provider-vaultwarden *)
(* (internal/vaultwarden/crypt, encryptedstring, helpers, keybuilder).     *)
(*                                                                         *)
(* Byte strings are sequences over 0..255; texts are sequences of          *)
(* one-character strings.  The library primitives the code calls are       *)
(* stood in for by small computable functions that keep the properties     *)
(* the code relies on:                                                     *)
(*   - AES: a keyed permutation of 16-byte blocks (BlockEnc / BlockDec),   *)
(*     chained in CBC mode with a real byte-wise XOR;                      *)
(*   - HMAC-SHA256: a keyed 32-byte checksum, defined for every key        *)
(*     (the empty key included), that changes whenever one bit of the      *)
(*     message changes or one byte of the key changes;                     *)
(*   - HKDF-Expand: a labelled 32-byte expansion of the input key.         *)
(* base64 (standard alphabet, padded) is modelled exactly.                 *)
(***************************************************************************)
EXTENDS Integers, Sequences, FiniteSets, TLC

VARIABLES
    SafeMode,   \* crypt.SafeMode, the exported package variable
    op,         \* the operation that ran last
    plain,      \* the plaintext that was encrypted
    key,        \* the key it was encrypted under
    dkey,       \* the key given to Decrypt / DecryptEncryptionKey
    orig,       \* the envelope as first built (by Encrypt, New or a parse)
    origSrc,    \* which of these built it
    env,        \* the envelope in hand
    envSrc,     \* how the envelope in hand came about
    peer,       \* how a received text was made
    text,       \* the text received from outside
    out,        \* the text produced by String / EncryptAsString
    res,        \* the result of the last operation
    client,     \* the Client struct of package vaultwarden
    world,      \* the clock and the server's side of the account
    memo,       \* the server's texts and what the crypt functions return on them
    flow,       \* what the last call of a Client method did
    prov,       \* package provider: the inputs and the outcome of the last call
    conc,       \* the goroutines that share one Client, and its mutex
    enum        \* package models: the receiver and the results of the last call

vars ==
    <<SafeMode, op, plain, key, dkey, orig, origSrc, env, envSrc, peer, text, out, res,
      client, world, memo, flow, prov, conc, enum>>

\* the variables outside packages crypt and vaultwarden's sequential calls
restVars == <<prov, conc, enum>>

\* ------------------------------------------------------------------ bounds
\* how many of the plaintext lengths of PlainLens are tried
NumPlain == 4
\* how many initialisation vectors the random source may return
NumIV == 2
\* the largest number of '|'-separated pieces of a received text
MaxPieces == 4
\* the largest number of 16-byte blocks of a buffer a peer encrypts as it is
MaxBlocks == 3
\* the last time of the clock
MaxNow == 3
\* how many KDF parameter sets the account may have had
NumKdf == 2
\* how many times one call may send its request
MaxSends == 2

\* ------------------------------------------------------- program constants
BlockSize == 16
IVLen == 16
MacLen == 32

\* --------------------------------------------------------------- the bytes
Byte == 0..255

RECURSIVE Xor(_, _)
Xor(a, b) == IF a = 0 /\ b = 0 THEN 0
             ELSE (((a % 2) + (b % 2)) % 2) + 2 * Xor(a \div 2, b \div 2)

RECURSIVE Pow2(_)
Pow2(n) == IF n = 0 THEN 1 ELSE 2 * Pow2(n - 1)

XorBytes(x, y) == [i \in 1..Len(x) |-> Xor(x[i], y[i])] \o <<>>

RECURSIVE SumRange(_, _, _)
SumRange(s, lo, hi) ==
    IF lo > hi THEN 0
    ELSE IF lo = hi THEN s[lo]
    ELSE LET mid == (lo + hi) \div 2
         IN  SumRange(s, lo, mid) + SumRange(s, mid + 1, hi)

\* the sum of the bytes, and the sum of the bytes weighted by position
SumSeq(s) == SumRange(s, 1, Len(s))

WSumSeq(s) == SumRange([i \in 1..Len(s) |-> i * s[i]], 1, Len(s))

\* --------------------------------------------------------------- base64
B64Chars == << "A","B","C","D","E","F","G","H","I","J","K","L","M",
               "N","O","P","Q","R","S","T","U","V","W","X","Y","Z",
               "a","b","c","d","e","f","g","h","i","j","k","l","m",
               "n","o","p","q","r","s","t","u","v","w","x","y","z",
               "0","1","2","3","4","5","6","7","8","9","+","/" >>

B64Set == {B64Chars[i] : i \in 1..64}

B64Idx(c) == (CHOOSE i \in 1..64 : B64Chars[i] = c) - 1

B64Ch(n) == B64Chars[n + 1]

\* base64.StdEncoding.EncodeToString: four characters per three bytes,
\* '=' where the last group has no byte
EncodeToString(b) ==
    LET n == Len(b)
        at(i) == IF i <= n THEN b[i] ELSE 0
    IN  [k \in 1..(4 * ((n + 2) \div 3)) |->
            LET g == (k - 1) \div 4
                pos == (k - 1) % 4
                b1 == at(3 * g + 1)
                b2 == at(3 * g + 2)
                b3 == at(3 * g + 3)
            IN  IF pos = 0 THEN B64Ch(b1 \div 4)
                ELSE IF pos = 1 THEN B64Ch((b1 % 4) * 16 + b2 \div 16)
                ELSE IF pos = 2 THEN
                    IF 3 * g + 2 > n THEN "=" ELSE B64Ch((b2 % 16) * 4 + b3 \div 64)
                ELSE IF 3 * g + 3 > n THEN "=" ELSE B64Ch(b3 % 64)] \o <<>>

\* base64.StdEncoding.DecodeString: groups of four characters, '=' padding
\* only at the end of the last group, no check of the unused trailing bits
DecodeString(s) ==
    LET n == Len(s)
        padOk(k) == s[k] = "=" /\ (k = n \/ (k = n - 1 /\ s[n] = "="))
        valid == /\ n % 4 = 0
                 /\ \A k \in 1..n : s[k] \in B64Set \/ padOk(k)
        pads == Cardinality({k \in 1..n : s[k] = "="})
        idx(k) == IF s[k] = "=" THEN 0 ELSE B64Idx(s[k])
    IN  IF ~valid THEN [ok |-> FALSE, val |-> <<>>]
        ELSE [ok |-> TRUE,
              val |-> [j \in 1..(3 * (n \div 4) - pads) |->
                        LET g == (j - 1) \div 3
                            r == (j - 1) % 3
                            n1 == idx(4 * g + 1)
                            n2 == idx(4 * g + 2)
                            n3 == idx(4 * g + 3)
                            n4 == idx(4 * g + 4)
                        IN  IF r = 0 THEN n1 * 4 + n2 \div 16
                            ELSE IF r = 1 THEN (n2 % 16) * 16 + n3 \div 4
                            ELSE (n3 % 4) * 64 + n4] \o <<>>]

\* --------------------------------------------------------------- texts
\* strings.Split(s, sep) for a one-character separator
RECURSIVE Split(_, _)
Split(s, sep) ==
    IF \A i \in 1..Len(s) : s[i] # sep THEN << s >>
    ELSE LET i == CHOOSE j \in 1..Len(s) :
                      s[j] = sep /\ \A h \in 1..(j - 1) : s[h] # sep
         IN  << SubSeq(s, 1, i - 1) >> \o Split(SubSeq(s, i + 1, Len(s)), sep)

Digits == << "0","1","2","3","4","5","6","7","8","9" >>

DigitSet == {Digits[i] : i \in 1..10}

DigitVal(c) == (CHOOSE i \in 1..10 : Digits[i] = c) - 1

RECURSIVE DecVal(_, _)
DecVal(s, acc) == IF s = <<>> THEN acc
                  ELSE DecVal(Tail(s), IF acc > 1000 THEN acc ELSE acc * 10 + DigitVal(Head(s)))

\* strconv.ParseInt(s, 10, 8): optional sign, decimal digits, range -128..127
ParseInt(s) ==
    LET signed == Len(s) > 0 /\ s[1] \in {"+", "-"}
        body == IF signed THEN Tail(s) ELSE s
        neg == signed /\ s[1] = "-"
    IN  IF body = <<>> \/ \E i \in 1..Len(body) : body[i] \notin DigitSet
        THEN [ok |-> FALSE, val |-> 0]
        ELSE LET v == DecVal(body, 0)
             IN  IF (neg /\ v > 128) \/ (~neg /\ v > 127)
                 THEN [ok |-> FALSE, val |-> 0]
                 ELSE [ok |-> TRUE, val |-> IF neg THEN 0 - v ELSE v]

RECURSIVE NatToText(_)
NatToText(n) == IF n < 10 THEN << Digits[n + 1] >>
                ELSE NatToText(n \div 10) \o << Digits[(n % 10) + 1] >>

\* fmt.Sprintf("%d", n)
Sprintf_d(n) == IF n < 0 THEN << "-" >> \o NatToText(0 - n) ELSE NatToText(n)

\* ------------------------------------------------- symmetrickey (package)
\* symmetrickey.EncryptionType
AesCbc256_B64 == 0
AesCbc128_HmacSha256_B64 == 1
AesCbc256_HmacSha256_B64 == 2
Rsa2048_OaepSha256_B64 == 3
Rsa2048_OaepSha1_B64 == 4

\* symmetrickey.Key
MkKey(t, raw, enc, mac) ==
    [EncryptionType |-> t, Key |-> raw, EncryptionKey |-> enc, MacKey |-> mac]

\* the zero value of symmetrickey.Key
NilKey == MkKey(0, <<>>, <<>>, <<>>)

\* symmetrickey.NewFromRawBytes: exactly 32 or 64 raw bytes
NewFromRawBytes(rawKey) ==
    IF Len(rawKey) = 32 THEN
        [err |-> "nil", val |-> MkKey(AesCbc256_B64, rawKey, rawKey, <<>>)]
    ELSE IF Len(rawKey) = 64 THEN
        [err |-> "nil",
         val |-> MkKey(AesCbc256_HmacSha256_B64, rawKey,
                       SubSeq(rawKey, 1, 32), SubSeq(rawKey, 33, 64))]
    ELSE [err |-> "unsupported symmetric key length", val |-> NilKey]

\* ------------------------------------------------------ helpers (package)
\* helpers.HMACSum(value, key, sha256.New): 32 bytes for every key
HMACSum(value, k) ==
    LET s0 == SumSeq(value)
        s1 == WSumSeq(value)
        kb(i) == IF Len(k) = 0 THEN 0 ELSE k[((i - 1) % Len(k)) + 1]
    IN  [i \in 1..MacLen |-> (i * s0 + s1 + kb(i) + Len(value) + 1) % 256] \o <<>>

\* helpers.HKDFExpand(value, info, sha256.New, length); info is "enc" or "mac"
HKDFExpand(value, info, length) ==
    LET code == IF info = "enc" THEN 1 ELSE 2
        vb(i) == IF Len(value) = 0 THEN 0 ELSE value[((i - 1) % Len(value)) + 1]
    IN  [i \in 1..length |-> (5 * vb(i) + 11 * code + 3 * i + 7) % 256] \o <<>>

\* symmetrickey.Key.StretchKey: HKDF-Expand with the labels "enc" and "mac"
StretchKey(k) ==
    LET enc == HKDFExpand(k.Key, "enc", 32)
        mac == HKDFExpand(k.Key, "mac", 32)
    IN  MkKey(AesCbc256_HmacSha256_B64, enc \o mac, enc, mac)

\* (each byte sequence is built as a tuple: "\o <<>>" after a constructor)
\* ------------------------------------------------- crypt: the block cipher
\* aes.NewCipher accepts keys of 16, 24 or 32 bytes
NewCipherOk(k) == Len(k) \in {16, 24, 32}

KeyByte(k, i) ==
    (k[((i - 1) % Len(k)) + 1] + 3 * k[((i + 7) % Len(k)) + 1] + i) % 256

\* the keyed permutation of one block, and its inverse
BlockEnc(k, B) == [i \in 1..BlockSize |-> (B[(i % BlockSize) + 1] + KeyByte(k, i)) % 256] \o <<>>

BlockDec(k, C) ==
    [j \in 1..BlockSize |->
        LET i == ((j + BlockSize - 2) % BlockSize) + 1
        IN  (C[i] + 256 - KeyByte(k, i)) % 256] \o <<>>

\* cipher.NewCBCEncrypter(block, iv).CryptBlocks
RECURSIVE CBCEncrypt(_, _, _)
CBCEncrypt(k, prev, P) ==
    IF Len(P) = 0 THEN <<>>
    ELSE LET c == BlockEnc(k, XorBytes(SubSeq(P, 1, BlockSize), prev))
         IN  c \o CBCEncrypt(k, c, SubSeq(P, BlockSize + 1, Len(P)))

\* cipher.NewCBCDecrypter(block, iv).CryptBlocks
RECURSIVE CBCDecrypt(_, _, _)
CBCDecrypt(k, prev, C) ==
    IF Len(C) = 0 THEN <<>>
    ELSE LET c == SubSeq(C, 1, BlockSize)
         IN  XorBytes(BlockDec(k, c), prev)
             \o CBCDecrypt(k, c, SubSeq(C, BlockSize + 1, Len(C)))

pkcs5Padding(cipherText, blockSize) ==
    LET padding == blockSize - (Len(cipherText) % blockSize)
    IN  cipherText \o [i \in 1..padding |-> padding]

\* src is never empty here: the caller has already aborted on an empty buffer
pkcs5Unpadding(src, blockSize) ==
    LET srcLen == Len(src)
        paddingLen == src[srcLen]
    IN  IF paddingLen = srcLen THEN [err |-> "nil", val |-> <<>>]
        ELSE IF paddingLen > blockSize THEN [err |-> "bad padding size", val |-> <<>>]
        ELSE [err |-> "nil", val |-> SubSeq(src, 1, srcLen - paddingLen)]

\* "panic" is the run-time abort of cipher.NewCBCDecrypter (IV of another
\* length), of CryptBlocks (input not full blocks) and of the index
\* src[srcLen-1] on an empty buffer
aes256Decode(cipherText, k, iv) ==
    IF ~NewCipherOk(k) THEN [err |-> "error creating new cipher block", val |-> <<>>]
    ELSE IF Len(iv) # BlockSize THEN [err |-> "panic", val |-> <<>>]
    ELSE IF Len(cipherText) % BlockSize # 0 THEN [err |-> "panic", val |-> <<>>]
    ELSE IF Len(cipherText) = 0 THEN [err |-> "panic", val |-> <<>>]
    ELSE pkcs5Unpadding(CBCDecrypt(k, iv, cipherText), BlockSize)

aes256Encode(plainText, k, iv, blockSize) ==
    LET plainTextPadded == pkcs5Padding(plainText, blockSize)
    IN  IF ~NewCipherOk(k) THEN [err |-> "error creating new cipher block", val |-> <<>>]
        ELSE IF Len(iv) # BlockSize THEN [err |-> "panic", val |-> <<>>]
        ELSE [err |-> "nil", val |-> CBCEncrypt(k, iv, plainTextPadded)]


\* ---------------------------------------------- encryptedstring (package)
\* encryptedstring.New
New(iv, data, hmac, k) == [IV |-> iv, Key |-> k, Data |-> data, Hmac |-> hmac]

\* the zero value of EncryptedString, returned beside an error
NilEncString == New(<<>>, <<>>, <<>>, NilKey)

\* the pieces taken per algorithm tag: 0 for a tag the switch does not know
ExpectedPieces(t) ==
    IF t \in {AesCbc128_HmacSha256_B64, AesCbc256_HmacSha256_B64} THEN 3
    ELSE IF t = AesCbc256_B64 THEN 2
    ELSE IF t \in {Rsa2048_OaepSha256_B64, Rsa2048_OaepSha1_B64} THEN 1
    ELSE 0

\* the base64 decoding of the three raw pieces, IV first
DecodePieces(t, rawIV, rawData, rawHmac) ==
    LET dIV == DecodeString(rawIV)
        dData == DecodeString(rawData)
        dMac == DecodeString(rawHmac)
    IN  IF ~dIV.ok THEN [err |-> "unable to base64 decode IV", val |-> NilEncString]
        ELSE IF ~dData.ok THEN [err |-> "unable to base64 decode data", val |-> NilEncString]
        ELSE IF ~dMac.ok THEN [err |-> "unable to base64 decode hmac", val |-> NilEncString]
        ELSE [err |-> "nil",
              val |-> New(dIV.val, dData.val, dMac.val, MkKey(t, <<>>, <<>>, <<>>))]

\* the switch without the piece count of the RSA case
PiecesByType_NoRsaCount(t, encPieces) ==
    IF ExpectedPieces(t) = 0 THEN
        [err |-> "unsupported encryption type", val |-> NilEncString]
    ELSE IF ExpectedPieces(t) = 1 THEN DecodePieces(t, <<>>, encPieces[1], <<>>)
    ELSE IF Len(encPieces) # ExpectedPieces(t) THEN
        [err |-> "bad amount of pieces", val |-> NilEncString]
    ELSE IF ExpectedPieces(t) = 3 THEN
        DecodePieces(t, encPieces[1], encPieces[2], encPieces[3])
    ELSE DecodePieces(t, encPieces[1], encPieces[2], <<>>)

\* the switch with the first piece decoded ahead of the piece count
PiecesByType_DecodeFirst(t, encPieces) ==
    IF ExpectedPieces(t) = 0 THEN
        [err |-> "unsupported encryption type", val |-> NilEncString]
    ELSE IF ExpectedPieces(t) > 1 /\ ~DecodeString(encPieces[1]).ok THEN
        [err |-> "unable to base64 decode IV", val |-> NilEncString]
    ELSE IF Len(encPieces) # ExpectedPieces(t) THEN
        [err |-> "bad amount of pieces", val |-> NilEncString]
    ELSE IF ExpectedPieces(t) = 3 THEN
        DecodePieces(t, encPieces[1], encPieces[2], encPieces[3])
    ELSE IF ExpectedPieces(t) = 2 THEN
        DecodePieces(t, encPieces[1], encPieces[2], <<>>)
    ELSE DecodePieces(t, <<>>, encPieces[1], <<>>)

\* the switch on the algorithm tag: piece count, then the assignment
PiecesByType(t, encPieces) ==
    IF ExpectedPieces(t) = 0 THEN
        [err |-> "unsupported encryption type", val |-> NilEncString]
    ELSE IF Len(encPieces) # ExpectedPieces(t) THEN
        [err |-> "bad amount of pieces", val |-> NilEncString]
    ELSE IF ExpectedPieces(t) = 3 THEN
        DecodePieces(t, encPieces[1], encPieces[2], encPieces[3])
    ELSE IF ExpectedPieces(t) = 2 THEN
        DecodePieces(t, encPieces[1], encPieces[2], <<>>)
    ELSE DecodePieces(t, <<>>, encPieces[1], <<>>)

\* encryptedstring.NewFromEncryptedValue
NewFromEncryptedValue(encryptedValue) ==
    IF Len(encryptedValue) = 0 THEN
        [err |-> "supposedly encrypted string is empty", val |-> NilEncString]
    ELSE
        LET headerPieces == Split(encryptedValue, ".")
        IN  IF Len(headerPieces) = 2 THEN
                LET s == ParseInt(headerPieces[1])
                IN  IF ~s.ok THEN
                        [err |-> "unable to parse encryption type", val |-> NilEncString]
                    ELSE PiecesByType(s.val, Split(headerPieces[2], "|"))
            ELSE
                LET encPieces == Split(encryptedValue, "|")
                IN  IF Len(encPieces) = 3
                    THEN PiecesByType(AesCbc128_HmacSha256_B64, encPieces)
                    ELSE PiecesByType(AesCbc256_B64, encPieces)

\* String without the leading tag
String_NoTag(encString) ==
    LET base64EncodedIV == EncodeToString(encString.IV)
        base64EncodedData == EncodeToString(encString.Data)
        base64EncodedHmac == EncodeToString(encString.Hmac)
        encryptedString ==
            IF Len(encString.IV) > 0
            THEN base64EncodedIV \o <<"|">> \o base64EncodedData
            ELSE base64EncodedData
    IN  IF Len(encString.Hmac) > 0
        THEN encryptedString \o <<"|">> \o base64EncodedHmac
        ELSE encryptedString

\* EncryptedString.String
String(encString) ==
    LET base64EncodedIV == EncodeToString(encString.IV)
        base64EncodedData == EncodeToString(encString.Data)
        base64EncodedHmac == EncodeToString(encString.Hmac)
        encType == Sprintf_d(encString.Key.EncryptionType)
        encryptedString ==
            IF Len(encString.IV) > 0
            THEN encType \o <<".">> \o base64EncodedIV \o <<"|">> \o base64EncodedData
            ELSE encType \o <<".">> \o base64EncodedData
    IN  IF Len(encString.Hmac) > 0
        THEN encryptedString \o <<"|">> \o base64EncodedHmac
        ELSE encryptedString

\* ------------------------------------------------------- crypt (package)
\* the first two checks of Decrypt: the algorithm tags of envelope and key
TypeCheck(encString, k) ==
    IF encString.Key.EncryptionType = AesCbc128_HmacSha256_B64
       /\ k.EncryptionType = AesCbc256_B64
    THEN "unsupported old scheme"
    ELSE IF encString.Key.EncryptionType # k.EncryptionType
    THEN "bad encryption type"
    ELSE "nil"

\* the message the MAC is computed over
MacInput(encString) == encString.IV \o encString.Data

\* Decrypt with the length comparison ahead of the presence check
Decrypt_LengthFirst(encString, k) ==
    IF TypeCheck(encString, k) # "nil" THEN
        [err |-> TypeCheck(encString, k), val |-> <<>>, aes |-> FALSE]
    ELSE IF Len(encString.Hmac) # Len(k.MacKey) THEN
        [err |-> "hmac lengths differ", val |-> <<>>, aes |-> FALSE]
    ELSE IF Len(encString.Hmac) = 0 /\ Len(k.MacKey) > 0 THEN
        [err |-> "hmac value is missing", val |-> <<>>, aes |-> FALSE]
    ELSE IF HMACSum(MacInput(encString), k.MacKey) # encString.Hmac THEN
        [err |-> "hmac comparison failed", val |-> <<>>, aes |-> FALSE]
    ELSE
        LET dec == aes256Decode(encString.Data, k.EncryptionKey, encString.IV)
        IN  IF dec.err = "panic" THEN [err |-> "panic", val |-> <<>>, aes |-> TRUE]
            ELSE IF dec.err # "nil" THEN
                [err |-> "error aes256Decoding", val |-> <<>>, aes |-> TRUE]
            ELSE [err |-> "nil", val |-> dec.val, aes |-> TRUE]

\* Decrypt without the comparison of the recomputed MAC
Decrypt_NoMacCompare(encString, k) ==
    IF TypeCheck(encString, k) # "nil" THEN
        [err |-> TypeCheck(encString, k), val |-> <<>>, aes |-> FALSE]
    ELSE IF Len(encString.Hmac) = 0 /\ Len(k.MacKey) > 0 THEN
        [err |-> "hmac value is missing", val |-> <<>>, aes |-> FALSE]
    ELSE IF Len(encString.Hmac) # Len(k.MacKey) THEN
        [err |-> "hmac lengths differ", val |-> <<>>, aes |-> FALSE]
    ELSE
        LET dec == aes256Decode(encString.Data, k.EncryptionKey, encString.IV)
        IN  IF dec.err = "panic" THEN [err |-> "panic", val |-> <<>>, aes |-> TRUE]
            ELSE IF dec.err # "nil" THEN
                [err |-> "error aes256Decoding", val |-> <<>>, aes |-> TRUE]
            ELSE [err |-> "nil", val |-> dec.val, aes |-> TRUE]

\* crypt.Decrypt; aes tells whether aes256Decode was called
Decrypt(encString, k) ==
    IF TypeCheck(encString, k) # "nil" THEN
        [err |-> TypeCheck(encString, k), val |-> <<>>, aes |-> FALSE]
    ELSE IF Len(encString.Hmac) = 0 /\ Len(k.MacKey) > 0 THEN
        [err |-> "hmac value is missing", val |-> <<>>, aes |-> FALSE]
    ELSE IF Len(encString.Hmac) # Len(k.MacKey) THEN
        [err |-> "hmac lengths differ", val |-> <<>>, aes |-> FALSE]
    ELSE IF HMACSum(MacInput(encString), k.MacKey) # encString.Hmac THEN
        [err |-> "hmac comparison failed", val |-> <<>>, aes |-> FALSE]
    ELSE
        LET dec == aes256Decode(encString.Data, k.EncryptionKey, encString.IV)
        IN  IF dec.err = "panic" THEN [err |-> "panic", val |-> <<>>, aes |-> TRUE]
            ELSE IF dec.err # "nil" THEN
                [err |-> "error aes256Decoding", val |-> <<>>, aes |-> TRUE]
            ELSE [err |-> "nil", val |-> dec.val, aes |-> TRUE]

\* the self-check at the end of Encrypt
SafeModeCheck(r, plainValue, k) ==
    LET safe == Decrypt(r, k)
    IN  IF safe.err = "panic" THEN "panic"
        ELSE IF safe.err # "nil" THEN "error reversing decryption (safe mode)"
        ELSE IF safe.val # plainValue THEN "failed to reverse decryption (safe mode)"
        ELSE "nil"

\* the early returns of Encrypt, "nil" when it goes on
EncryptGuard_NoKeyCheck(plainValue, k, randomIV) ==
    IF Len(plainValue) = 0 THEN "trying to encrypt nothing"
    ELSE IF Len(randomIV) # 16 THEN "bad IV length"
    ELSE "nil"

EncryptGuard(plainValue, k, randomIV) ==
    IF Len(plainValue) = 0 THEN "trying to encrypt nothing"
    ELSE IF Len(k.EncryptionKey) = 0 THEN "no encryption key was provided"
    ELSE IF Len(randomIV) # 16 THEN "bad IV length"
    ELSE "nil"

\* ops lists the cipher and HMAC operations the call performed
Encrypt_NoSafeCheck(plainValue, k, randomIV, safeMode) ==
    IF EncryptGuard(plainValue, k, randomIV) # "nil" THEN
        [err |-> EncryptGuard(plainValue, k, randomIV), val |-> NilEncString, ops |-> <<>>]
    ELSE
        LET enc == aes256Encode(plainValue, k.EncryptionKey, randomIV, 16)
        IN  IF enc.err # "nil" THEN
                [err |-> "error to aes256encoding data", val |-> NilEncString,
                 ops |-> <<"aes256Encode">>]
            ELSE
                LET data == enc.val
                    hmac == HMACSum(randomIV \o data, k.MacKey)
                IN  [err |-> "nil", val |-> New(randomIV, data, hmac, k),
                     ops |-> <<"aes256Encode", "HMACSum">>]

\* crypt.Encrypt; randomIV is what rand.Read filled in, safeMode the value
\* of the package variable SafeMode
Encrypt(plainValue, k, randomIV, safeMode) ==
    IF EncryptGuard(plainValue, k, randomIV) # "nil" THEN
        [err |-> EncryptGuard(plainValue, k, randomIV), val |-> NilEncString, ops |-> <<>>]
    ELSE
        LET enc == aes256Encode(plainValue, k.EncryptionKey, randomIV, 16)
        IN  IF enc.err # "nil" THEN
                [err |-> "error to aes256encoding data", val |-> NilEncString,
                 ops |-> <<"aes256Encode">>]
            ELSE
                LET data == enc.val
                    hmac == HMACSum(randomIV \o data, k.MacKey)
                    r == New(randomIV, data, hmac, k)
                    chk == IF safeMode THEN SafeModeCheck(r, plainValue, k) ELSE "nil"
                    ops == <<"aes256Encode", "HMACSum">>
                             \o (IF safeMode THEN <<"Decrypt">> ELSE <<>>)
                IN  IF chk # "nil" THEN [err |-> chk, val |-> NilEncString, ops |-> ops]
                    ELSE [err |-> "nil", val |-> r, ops |-> ops]

\* crypt.EncryptAsString
EncryptAsString(plainValue, k, randomIV, safeMode) ==
    LET r == Encrypt(plainValue, k, randomIV, safeMode)
    IN  IF r.err # "nil" THEN [err |-> r.err, val |-> <<>>]
        ELSE [err |-> "nil", val |-> String(r.val)]

DecryptEncryptionKey_NoLengthCheck(encryptedKeyStr, k) ==
    LET p == NewFromEncryptedValue(encryptedKeyStr)
        t == p.val.Key.EncryptionType
        use == IF t = AesCbc256_B64 THEN k ELSE StretchKey(k)
    IN  IF p.err # "nil" THEN
            [err |-> "error decrypting encryption key: parse", val |-> NilKey, with |-> NilKey]
        ELSE IF t \notin {AesCbc256_B64, AesCbc256_HmacSha256_B64} THEN
            [err |-> "unsupported encryption key type", val |-> NilKey, with |-> NilKey]
        ELSE
            LET d == Decrypt(p.val, use)
            IN  IF d.err = "panic" THEN [err |-> "panic", val |-> NilKey, with |-> use]
                ELSE IF d.err # "nil" THEN
                    [err |-> "error decrypting encryption key", val |-> NilKey, with |-> use]
                ELSE [err |-> "nil",
                      val |-> MkKey(AesCbc256_HmacSha256_B64, d.val, d.val, d.val),
                      with |-> use]

\* DecryptEncryptionKey handing the wrapping key itself to Decrypt for
\* every tag
DecryptEncryptionKey_NoStretch(encryptedKeyStr, k) ==
    LET p == NewFromEncryptedValue(encryptedKeyStr)
        t == p.val.Key.EncryptionType
    IN  IF p.err # "nil" THEN
            [err |-> "error decrypting encryption key: parse", val |-> NilKey, with |-> NilKey]
        ELSE IF t \notin {AesCbc256_B64, AesCbc256_HmacSha256_B64} THEN
            [err |-> "unsupported encryption key type", val |-> NilKey, with |-> NilKey]
        ELSE
            LET d == Decrypt(p.val, k)
            IN  IF d.err = "panic" THEN [err |-> "panic", val |-> NilKey, with |-> k]
                ELSE IF d.err # "nil" THEN
                    [err |-> "error decrypting encryption key", val |-> NilKey, with |-> k]
                ELSE
                    LET n == NewFromRawBytes(d.val)
                    IN  IF n.err # "nil" THEN
                            [err |-> "unsupported decryption encryption key",
                             val |-> NilKey, with |-> k]
                        ELSE [err |-> "nil", val |-> n.val, with |-> k]

\* crypt.DecryptEncryptionKey; with is the key handed to Decrypt
\* (NilKey when Decrypt was not called)
DecryptEncryptionKey(encryptedKeyStr, k) ==
    LET p == NewFromEncryptedValue(encryptedKeyStr)
        t == p.val.Key.EncryptionType
        use == IF t = AesCbc256_B64 THEN k ELSE StretchKey(k)
    IN  IF p.err # "nil" THEN
            [err |-> "error decrypting encryption key: parse", val |-> NilKey, with |-> NilKey]
        ELSE IF t \notin {AesCbc256_B64, AesCbc256_HmacSha256_B64} THEN
            [err |-> "unsupported encryption key type", val |-> NilKey, with |-> NilKey]
        ELSE
            LET d == Decrypt(p.val, use)
            IN  IF d.err = "panic" THEN [err |-> "panic", val |-> NilKey, with |-> use]
                ELSE IF d.err # "nil" THEN
                    [err |-> "error decrypting encryption key", val |-> NilKey, with |-> use]
                ELSE
                    LET n == NewFromRawBytes(d.val)
                    IN  IF n.err # "nil" THEN
                            [err |-> "unsupported decryption encryption key",
                             val |-> NilKey, with |-> use]
                        ELSE [err |-> "nil", val |-> n.val, with |-> use]



\* ------------------------------------------------- keybuilder (package)
\* what EncryptEncryptionKey returns once the envelope text s is made
\* under the key w: the key built from the raw bytes, the text, the error
\* of NewFromRawBytes
WrapResult(s, w, encryptionKey) ==
    IF s.err # "nil" THEN
        [err |-> "error encrypting encryption key", val |-> NilKey, text |-> <<>>, with |-> w]
    ELSE [err |-> NewFromRawBytes(encryptionKey).err,
          val |-> NewFromRawBytes(encryptionKey).val,
          text |-> s.val, with |-> w]

EncryptEncryptionKey_NoStretch(k, encryptionKey, randomIV, safeMode) ==
    IF Len(k.Key) = 32 \/ Len(k.Key) = 64 THEN
        WrapResult(EncryptAsString(encryptionKey, k, randomIV, safeMode), k, encryptionKey)
    ELSE [err |-> "invalid symmetric key length", val |-> NilKey, text |-> <<>>,
          with |-> NilKey]

\* keybuilder.EncryptEncryptionKey; with is the key handed to
\* EncryptAsString
EncryptEncryptionKey(k, encryptionKey, randomIV, safeMode) ==
    IF Len(k.Key) = 32 THEN
        WrapResult(EncryptAsString(encryptionKey, StretchKey(k), randomIV, safeMode),
                   StretchKey(k), encryptionKey)
    ELSE IF Len(k.Key) = 64 THEN
        WrapResult(EncryptAsString(encryptionKey, k, randomIV, safeMode), k, encryptionKey)
    ELSE [err |-> "invalid symmetric key length", val |-> NilKey, text |-> <<>>,
          with |-> NilKey]

\* keybuilder.GenerateEncryptionKey; random64 is what rand.Read filled in
GenerateEncryptionKey(k, random64, randomIV, safeMode) ==
    EncryptEncryptionKey(k, random64, randomIV, safeMode)

\* ------------------------------------------------------------ the inputs
MkBytes(seed, n) == [i \in 1..n |-> (37 * seed + 11 * i + seed * i) % 256] \o <<>>

\* "Default Collection"
DefaultCollection ==
    << 68, 101, 102, 97, 117, 108, 116, 32, 67, 111, 108, 108, 101, 99, 116, 105, 111, 110 >>

PlainLens == << 1, 16, 17, 15, 32, 31, 2, 33 >>

PlainLen(i) == PlainLens[((i - 1) % Len(PlainLens)) + 1]

Plaintexts == {MkBytes(40 + i, PlainLen(i)) : i \in 1..NumPlain} \cup {DefaultCollection}

RandomIVs == {MkBytes(90 + i, IVLen) : i \in 1..NumIV}

Raw32a == MkBytes(1, 32)
Raw32b == MkBytes(2, 32)
Raw64a == MkBytes(3, 64)
Raw64b == MkBytes(4, 64)
\* the encryption half of Raw64b with the authentication half of Raw64a
Raw64c == SubSeq(Raw64b, 1, 32) \o SubSeq(Raw64a, 33, 64)

Key32a == NewFromRawBytes(Raw32a).val
Key32b == NewFromRawBytes(Raw32b).val
Key64a == NewFromRawBytes(Raw64a).val
Key64b == NewFromRawBytes(Raw64b).val
Key64c == NewFromRawBytes(Raw64c).val

\* the valid symmetric keys: 32 raw bytes (encryption only) and 64 raw bytes
Keys == {Key32a, Key32b, Key64a, Key64b, Key64c}

\* the keys a KDF returns: 32 raw bytes
PreloginKeys == {Key32a, Key32b}

\* opaque RSA-OAEP ciphertexts
RsaCiphertexts == {MkBytes(5, 8), MkBytes(6, 3)}

NoRes == [err |-> "none"]

NoPeer == [kind |-> "none", tag |-> <<>>, iv |-> "none", data |-> "none", mac |-> "none"]

\* ---------------------------------------------------- texts from outside
RECURSIVE Join(_, _)
Join(pieces, sep) ==
    IF Len(pieces) = 0 THEN <<>>
    ELSE IF Len(pieces) = 1 THEN pieces[1]
    ELSE pieces[1] \o <<sep>> \o Join(Tail(pieces), sep)

\* what another client or the server sends: an AES-CBC ciphertext of p
\* under k, written with some tag, with the IV, ciphertext and MAC variants
\* a peer (or a corrupted store) can produce
PeerIV(v) == IF v = "good" THEN MkBytes(77, IVLen)
             ELSE IF v = "short" THEN MkBytes(77, 8)
             ELSE <<>>

PeerData(p, k, iv, v) ==
    LET full == CBCEncrypt(k.EncryptionKey,
                           IF Len(iv) = BlockSize THEN iv ELSE MkBytes(77, IVLen),
                           pkcs5Padding(p, BlockSize))
    IN  IF v = "good" THEN full
        ELSE IF v = "cut" THEN SubSeq(full, 1, Len(full) - 1)
        ELSE <<>>

PeerMac(k, iv, data, v) ==
    LET mk == IF Len(k.MacKey) > 0 THEN k.MacKey ELSE k.EncryptionKey
    IN  IF v = "good" THEN HMACSum(iv \o data, mk)
        ELSE IF v = "bad" THEN HMACSum(data, mk)
        ELSE IF v = "short" THEN SubSeq(HMACSum(iv \o data, mk), 1, 16)
        ELSE <<>>

\* the IV piece is left out for "absent", the MAC piece for "none"; an
\* "empty" MAC is a piece with nothing in it
PeerPieces(p, k, ivv, dv, mv) ==
    LET iv == PeerIV(ivv)
        data == PeerData(p, k, iv, dv)
    IN  (IF ivv = "absent" THEN <<>> ELSE << EncodeToString(iv) >>)
        \o << EncodeToString(data) >>
        \o (IF mv = "none" THEN <<>> ELSE << EncodeToString(PeerMac(k, iv, data, mv)) >>)

PeerText(t, p, k, ivv, dv, mv) == t \o Join(PeerPieces(p, k, ivv, dv, mv), "|")

PeerPlaintexts == {Raw64b, Raw32b}

PeerKeys == PreloginKeys \cup {Key64a} \cup {StretchKey(k) : k \in PreloginKeys}

TagTexts == { <<>>, <<"0", ".">>, <<"1", ".">>, <<"2", ".">>, <<"4", ".">> }

\* arbitrary texts: a prefix, then 1..MaxPieces pieces
Prefixes ==
    { <<>>, <<"0", ".">>, <<"1", ".">>, <<"2", ".">>, <<"3", ".">>, <<"4", ".">>,
      <<"5", ".">>, <<"6", ".">>, <<"9", ".">>, <<"x", ".">>, <<".">>,
      <<"-", "1", ".">>, <<"0", "2", ".">>, <<"2", "0", "0", ".">>,
      <<"2", ".", "1", ".">> }

PieceTexts == { <<>>, <<"A", "Q", "=", "=">>, <<"Q", "U", "J", "D">>, <<"!", "A", "A", "A">> }

RECURSIVE PieceLists(_)
PieceLists(n) ==
    IF n = 0 THEN { <<>> }
    ELSE { <<x>> \o l : x \in PieceTexts, l \in PieceLists(n - 1) }

AnyTexts ==
    { <<>> } \cup
    { pre \o Join(l, "|") : pre \in Prefixes,
                            l \in UNION { PieceLists(n) : n \in 1..MaxPieces } }

\* ------------------------------------------------ vaultwarden (package)
\* Two variants of the Client are among the sources: "A" keeps accessToken,
\* privateKey and adminCookie in the struct (client.go, auth.go), "B" keeps
\* them in AuthState beside the KDF configuration (the ensureUserAuth /
\* userLogin file).  One record holds the fields of both.

\* a KDF parameter set is named by a number: 1..NumKdf are parameter sets
\* the account has had, 0 is a parameter set BuildPreloginKey rejects
NoKdf == 0 - 1

\* the zero value of time.Time, before every time of the clock
ZeroTime == 0 - 1

KdfConfigs == 0..NumKdf

\* an access token: empty is the string "", jwt says the text is
\* a well-formed JWT, iat and exp are its nbf and exp claims
NoToken == [empty |-> TRUE, iat |-> 0, exp |-> 0, jwt |-> FALSE]

MkToken(iat, exp, jwt) == [empty |-> FALSE, iat |-> iat, exp |-> exp, jwt |-> jwt]

\* an admin cookie: a session cookie has the zero time as Expires
NoCookie == [nil |-> TRUE, expires |-> ZeroTime]

MkCookie(expires) == [nil |-> FALSE, expires |-> expires]

NoClient ==
    [impl |-> "none", hasUser |-> FALSE, adminToken |-> FALSE, userAuthMethod |-> "none",
     accessToken |-> NoToken, privateKey |-> "nil", adminCookie |-> NoCookie,
     AuthStateNil |-> TRUE, KdfConfig |-> NoKdf, TokenExpiresAt |-> ZeroTime,
     Organizations |-> <<>>]

\* the master password as bytes
MasterPassword == MkBytes(60, 8)

\* the PKCS#8 encodings of the account's RSA private key and of a key that
\* is not an RSA key
RsaPkcs8 == MkBytes(61, 40)
EcPkcs8 == MkBytes(62, 24)

\* the account's symmetric key
UserKey == Key64a

\* keybuilder.BuildPreloginKey: 32 bytes that depend on the password, the
\* email and the KDF parameters; parameters below the floor are rejected
BuildPreloginKey(kdf) ==
    IF kdf < 1 THEN [err |-> "invalid kdf parameters", val |-> NilKey]
    ELSE [err |-> "nil", val |-> (CHOOSE x \in memo.preloginKeys : x.kdf = kdf).key]

\* crypt.HashPassword(password, key, false): PBKDF2 with one iteration is
\* one HMAC keyed with key.Key
HashPassword(password, k) == EncodeToString(HMACSum(password, k.Key))

\* crypt.DecryptPrivateKey; the value is "rsa" for the parsed key
DecryptPrivateKey(encryptedPrivateKeyStr, encryptionKey) ==
    LET p == NewFromEncryptedValue(encryptedPrivateKeyStr)
    IN  IF p.err # "nil" THEN
            [err |-> "failed to parse encrypted private key value", val |-> "nil"]
        ELSE
            LET d == Decrypt(p.val, encryptionKey)
            IN  IF d.err = "panic" THEN [err |-> "panic", val |-> "nil"]
                ELSE IF d.err # "nil" THEN
                    [err |-> "failed to decrypt the private key using the provided encryption key",
                     val |-> "nil"]
                ELSE IF d.val = RsaPkcs8 THEN [err |-> "nil", val |-> "rsa"]
                ELSE IF d.val = EcPkcs8 THEN
                    [err |-> "parsed private key is not an RSA private key", val |-> "nil"]
                ELSE [err |-> "failed to parse decrypted private key in PKCS8 format",
                      val |-> "nil"]

\* helpers.ParseJWTExpiration
ParseJWTExpiration(tokenString) ==
    IF tokenString.empty \/ ~tokenString.jwt THEN [err |-> "invalid JWT format", val |-> 0]
    ELSE [err |-> "nil", val |-> tokenString.exp]

\* ----------------------------------------------------- the server's side
\* memo holds the texts of the server and the values of the functions of
\* package crypt on the texts and keys of this model, each evaluated once,
\* at the start; the flows read the values from memo.  (A value that is
\* used more than once is bound with \in.)
\* per parameter set: the prelogin key and the key stretched from it
PreloginKeyResults ==
    { [kdf |-> x.kdf, key |-> x.key, stretched |-> StretchKey(x.key)] :
        x \in { [kdf |-> kdf, key |-> NewFromRawBytes(MkBytes(kdf, 32)).val] :
                  kdf \in 1..NumKdf } }

\* crypt.HashPassword of the master password under each prelogin key
HashResults(keys) ==
    { [password |-> MasterPassword, k |-> x.key, r |-> HashPassword(MasterPassword, x.key)] :
        x \in keys }

\* TokenResponse.Key is the protected symmetric key of the account, made
\* at registration under the stretched prelogin key of the parameter set
\* kdf: sound or with a damaged MAC
KeyTexts(keys) ==
    { [kdf |-> s.kdf, v |-> v,
       text |-> PeerText(<<"2", ".">>, Raw64a, s.stretched, "good", "good", v)] :
        s \in keys, v \in {"good", "bad"} }

\* TokenResponse.PrivateKey, made under the account's symmetric key: sound,
\* with a damaged MAC, or of a key that is not an RSA key
PrivateKeyTexts ==
    { [v |-> v,
       text |-> PeerText(<<"2", ".">>, IF v = "ec" THEN EcPkcs8 ELSE RsaPkcs8, UserKey,
                         "good", "good", IF v = "ec" THEN "good" ELSE v)] :
        v \in {"good", "bad", "ec"} }

\* crypt.DecryptEncryptionKey and crypt.DecryptPrivateKey on the texts of
\* the server
KeyTextResults(texts, keys) ==
    { [t |-> x.text, k |-> y.key, r |-> DecryptEncryptionKey(x.text, y.key)] :
        x \in texts, y \in keys }

PrivateKeyTextResults(texts) ==
    { [t |-> x.text, k |-> k, r |-> DecryptPrivateKey(x.text, k)] :
        x \in texts, k \in {UserKey} }

\* the random bytes CreateOrganization draws: the shared key and the IV
OrgIV == MkBytes(91, IVLen)

\* crypt.EncryptAsString on the plaintexts of CreateOrganization
EncryptResults ==
    { [plain |-> p, k |-> k, iv |-> iv, safeMode |-> sm,
       r |-> EncryptAsString(p, k, iv, sm)] :
        p \in {DefaultCollection, <<>>, RsaPkcs8},
        k \in {NewFromRawBytes(Raw64a).val, NewFromRawBytes(Raw64b).val},
        iv \in {OrgIV}, sm \in BOOLEAN }

NewMemo(keys, texts, privateTexts) ==
    [preloginKeys |-> keys, keyTexts |-> texts, privateKeyTexts |-> privateTexts,
     keyResults |-> KeyTextResults(texts, keys),
     privateKeyResults |-> PrivateKeyTextResults(privateTexts),
     hashResults |-> HashResults(keys),
     encryptResults |-> EncryptResults]

InitMemo ==
    CHOOSE m \in { NewMemo(keys, texts, privateTexts) :
                     keys \in {PreloginKeyResults},
                     texts \in {KeyTexts(PreloginKeyResults)},
                     privateTexts \in {PrivateKeyTexts} } : TRUE

ProtectedKey(kdf, v) == (CHOOSE x \in memo.keyTexts : x.kdf = kdf /\ x.v = v).text

ProtectedPrivateKey(v) == (CHOOSE x \in memo.privateKeyTexts : x.v = v).text

\* the tokens the server issues at the time now
Tokens(now) == {MkToken(now, now + 2, TRUE), MkToken(now, now + 2, FALSE)}

NoResp == [Key |-> <<>>, PrivateKey |-> <<>>, AccessToken |-> NoToken]

\* the login responses of a server whose account has the parameter set kdf
TokenResponses(w) ==
    IF w.kdf = 0 THEN {NoResp}
    ELSE {[Key |-> ProtectedKey(w.kdf, v[1]), PrivateKey |-> ProtectedPrivateKey(v[2]),
           AccessToken |-> t] :
            v \in {<<"good", "good">>, <<"bad", "good">>, <<"good", "bad">>, <<"good", "ec">>},
            t \in Tokens(w.now)}

\* what the outside does during one call: whether the prelogin request
\* and the login request get an answer, the login response, and the answer
\* to an admin login.  A call authenticates either as user or as admin, so
\* the two sides vary one at a time
AuthEnvs(w) ==
    { [preloginOk |-> FALSE, loginOk |-> FALSE, resp |-> NoResp, admin |-> "fail"],
      [preloginOk |-> TRUE, loginOk |-> FALSE, resp |-> NoResp, admin |-> "nocookie"],
      [preloginOk |-> FALSE, loginOk |-> FALSE, resp |-> NoResp, admin |-> "session"],
      [preloginOk |-> FALSE, loginOk |-> FALSE, resp |-> NoResp, admin |-> "expiring"] }
    \cup { [preloginOk |-> TRUE, loginOk |-> TRUE, resp |-> r, admin |-> "fail"] :
             r \in TokenResponses(w) }

\* crypt.HashPassword, crypt.DecryptEncryptionKey, crypt.DecryptPrivateKey
\* and crypt.EncryptAsString as the flows call them: the value is read
\* from memo, which has it for every text and key of the model
HashPasswordOf(password, k) ==
    (CHOOSE x \in memo.hashResults : x.password = password /\ x.k = k).r

DecryptEncryptionKeyOf(encryptedKeyStr, k) ==
    (CHOOSE x \in memo.keyResults : x.t = encryptedKeyStr /\ x.k = k).r

DecryptPrivateKeyOf(encryptedPrivateKeyStr, encryptionKey) ==
    (CHOOSE x \in memo.privateKeyResults :
        x.t = encryptedPrivateKeyStr /\ x.k = encryptionKey).r

EncryptAsStringOf(plainValue, k, randomIV, safeMode) ==
    (CHOOSE x \in memo.encryptResults :
        /\ x.plain = plainValue /\ x.k = k /\ x.iv = randomIV /\ x.safeMode = safeMode).r

\* the server accepts a password hash made with the current parameter set
ServerAccepts(hashedPassword, w) ==
    /\ w.kdf # 0
    /\ hashedPassword = HashPasswordOf(MasterPassword, BuildPreloginKey(w.kdf).val)

\* ------------------------------------------------------------ the flows
Stages ==
    << "Prelogin", "BuildPreloginKey", "Login", "DecryptEncryptionKey", "DecryptPrivateKey",
       "ParseJWTExpiration" >>

\* what a call of a Client method did: the error it returned, the stages
\* it performed in order, the requests it sent, the KDF parameter set it
\* derived the prelogin key from and the one its own prelogin request
\* returned, the login response it processed
MkFlow(c, err, steps, kdfUsed, kdfSeen, resp) ==
    [client |-> c, err |-> err, steps |-> steps, kdfUsed |-> kdfUsed, kdfSeen |-> kdfSeen,
     resp |-> resp]

Client_hasUserAuth(c) == c.hasUser

Client_hasAdminAuth(c) == c.adminToken

\* Client.isTokenValid
isTokenValid(c, now) ==
    /\ ~c.accessToken.empty
    /\ c.accessToken.jwt
    /\ ~(now < c.accessToken.iat \/ now > c.accessToken.exp)

processLoginResponse_TokenFirst(c, tokenResp, preloginKey) ==
    LET ek == DecryptEncryptionKeyOf(tokenResp.Key, preloginKey)
        stored == [c EXCEPT !.accessToken = tokenResp.AccessToken]
    IN  IF ek.err # "nil" THEN
            [client |-> stored, err |-> "failed to decrypt encryption key",
             steps |-> <<"DecryptEncryptionKey">>]
        ELSE
            LET pv == DecryptPrivateKeyOf(tokenResp.PrivateKey, ek.val)
            IN  IF pv.err # "nil" THEN
                    [client |-> stored, err |-> "failed to decrypt private key",
                     steps |-> <<"DecryptEncryptionKey", "DecryptPrivateKey">>]
                ELSE [client |-> [stored EXCEPT !.privateKey = pv.val], err |-> "nil",
                      steps |-> <<"DecryptEncryptionKey", "DecryptPrivateKey">>]

\* Client.processLoginResponse (variant A)
processLoginResponse(c, tokenResp, preloginKey) ==
    LET ek == DecryptEncryptionKeyOf(tokenResp.Key, preloginKey)
    IN  IF ek.err # "nil" THEN
            [client |-> c, err |-> "failed to decrypt encryption key",
             steps |-> <<"DecryptEncryptionKey">>]
        ELSE
            LET pv == DecryptPrivateKeyOf(tokenResp.PrivateKey, ek.val)
            IN  IF pv.err # "nil" THEN
                    [client |-> c, err |-> "failed to decrypt private key",
                     steps |-> <<"DecryptEncryptionKey", "DecryptPrivateKey">>]
                ELSE [client |-> [c EXCEPT !.accessToken = tokenResp.AccessToken,
                                           !.privateKey = pv.val],
                      err |-> "nil",
                      steps |-> <<"DecryptEncryptionKey", "DecryptPrivateKey">>]

\* Client.ensureValidUserAuth (variant A)
ensureValidUserAuth(c, w, e) ==
    IF ~Client_hasUserAuth(c) THEN
        MkFlow(c, "user credentials not configured", <<>>, NoKdf, NoKdf, NoResp)
    ELSE IF isTokenValid(c, w.now) /\ c.privateKey # "nil" THEN
        MkFlow(c, "nil", <<>>, NoKdf, NoKdf, NoResp)
    ELSE IF ~e.preloginOk THEN
        MkFlow(c, "prelogin failed", <<"Prelogin">>, NoKdf, NoKdf, NoResp)
    ELSE
        LET pk == BuildPreloginKey(w.kdf)
        IN  IF pk.err # "nil" THEN
                MkFlow(c, "failed to build prelogin key", <<"Prelogin", "BuildPreloginKey">>,
                       w.kdf, w.kdf, NoResp)
            ELSE IF ~(e.loginOk /\ ServerAccepts(HashPasswordOf(MasterPassword, pk.val), w)) THEN
                MkFlow(c, "login failed", <<"Prelogin", "BuildPreloginKey", "Login">>,
                       w.kdf, w.kdf, NoResp)
            ELSE
                LET r == processLoginResponse(c, e.resp, pk.val)
                IN  MkFlow(r.client,
                           IF r.err = "nil" THEN "nil" ELSE "failed to process login response",
                           <<"Prelogin", "BuildPreloginKey", "Login">> \o r.steps,
                           w.kdf, w.kdf, e.resp)

\* Client.userLogin (variant B); an API-key login does not send the
\* password hash
userLogin(c, w, e) ==
    LET fetch == c.AuthStateNil \/ c.KdfConfig = NoKdf
        c1 == IF fetch THEN [c EXCEPT !.AuthStateNil = FALSE, !.KdfConfig = w.kdf] ELSE c
        s1 == IF fetch THEN <<"Prelogin">> ELSE <<>>
        seen == IF fetch THEN w.kdf ELSE NoKdf
        pk == BuildPreloginKey(c1.KdfConfig)
        accepted ==
            IF c1.userAuthMethod = "OAuth2" THEN e.loginOk /\ w.kdf # 0
            ELSE e.loginOk /\ ServerAccepts(HashPasswordOf(MasterPassword, pk.val), w)
        s3 == s1 \o <<"BuildPreloginKey", "Login">>
        ek == DecryptEncryptionKeyOf(e.resp.Key, pk.val)
        pv == DecryptPrivateKeyOf(e.resp.PrivateKey, ek.val)
        exp == ParseJWTExpiration(e.resp.AccessToken)
    IN  IF fetch /\ ~e.preloginOk THEN
            MkFlow(c, "failed to get prelogin info", <<"Prelogin">>, NoKdf, NoKdf, NoResp)
        ELSE IF pk.err # "nil" THEN
            MkFlow(c1, "failed to build prelogin key", s1 \o <<"BuildPreloginKey">>,
                   c1.KdfConfig, seen, NoResp)
        ELSE IF c1.userAuthMethod \notin {"OAuth2", "UserPassword"} THEN
            MkFlow(c1, "no valid user authentication method available",
                   s1 \o <<"BuildPreloginKey">>, c1.KdfConfig, seen, NoResp)
        ELSE IF ~accepted THEN
            MkFlow(c1, "authentication failed", s3, c1.KdfConfig, seen, NoResp)
        ELSE IF ek.err # "nil" THEN
            MkFlow(c1, "failed to decrypt encryption key", s3 \o <<"DecryptEncryptionKey">>,
                   c1.KdfConfig, seen, e.resp)
        ELSE IF pv.err # "nil" THEN
            MkFlow(c1, "failed to decrypt private key",
                   s3 \o <<"DecryptEncryptionKey", "DecryptPrivateKey">>,
                   c1.KdfConfig, seen, e.resp)
        ELSE IF exp.err # "nil" THEN
            MkFlow(c1, "failed to parse token expiration",
                   s3 \o <<"DecryptEncryptionKey", "DecryptPrivateKey", "ParseJWTExpiration">>,
                   c1.KdfConfig, seen, e.resp)
        ELSE
            MkFlow([c1 EXCEPT !.accessToken = e.resp.AccessToken, !.privateKey = pv.val,
                              !.TokenExpiresAt = exp.val],
                   "nil",
                   s3 \o <<"DecryptEncryptionKey", "DecryptPrivateKey", "ParseJWTExpiration">>,
                   c1.KdfConfig, seen, e.resp)

\* Client.ensureUserAuth (variant B): the token must outlive the next
\* minute, one tick of the clock
ensureUserAuth(c, w, e) ==
    IF /\ ~c.AuthStateNil /\ ~c.accessToken.empty /\ c.privateKey # "nil"
       /\ c.TokenExpiresAt # ZeroTime /\ w.now + 1 < c.TokenExpiresAt
    THEN MkFlow(c, "nil", <<>>, NoKdf, NoKdf, NoResp)
    ELSE userLogin(c, w, e)

\* ---------------------------------------------------------- the requests
AdminPrefix == <<"/", "a", "d", "m", "i", "n">>

ApiOrganizations ==
    <<"/", "a", "p", "i", "/", "o", "r", "g", "a", "n", "i", "z", "a", "t", "i", "o", "n", "s">>

\* the paths a caller asks for
Paths ==
    { AdminPrefix,
      AdminPrefix \o <<"/", "u", "s", "e", "r", "s">>,
      AdminPrefix \o <<"i", "s", "t", "r", "a", "t", "o", "r">>,
      <<"/", "a", "d", "m">>,
      <<"/", "A", "d", "m", "i", "n">>,
      <<"/", "a", "p", "i">> \o AdminPrefix,
      ApiOrganizations,
      <<>> }

requiresAuth_ExactPath(path) ==
    IF path = AdminPrefix THEN "AuthMethodAdmin" ELSE "AuthMethodUser"

\* Client.requiresAuth
requiresAuth(path) ==
    IF Len(path) >= 6 /\ SubSeq(path, 1, 6) = AdminPrefix THEN "AuthMethodAdmin"
    ELSE "AuthMethodUser"

\* a request handed to httpClient.Do: to names the endpoint ("api" for the
\* caller's path), auth what authenticates it
MkRequest(to, path, auth) == [to |-> to, path |-> path, auth |-> auth]

\* the prelogin and login requests of the stages a flow performed
RECURSIVE AuthRequests(_)
AuthRequests(steps) ==
    IF steps = <<>> THEN <<>>
    ELSE (IF Head(steps) = "Prelogin" THEN << MkRequest("prelogin", <<>>, "none") >>
          ELSE IF Head(steps) = "Login" THEN << MkRequest("token", <<>>, "none") >>
          ELSE <<>>)
         \o AuthRequests(Tail(steps))

\* Client.ensureValidAdminAuth (variant A)
ensureValidAdminAuth(c, w, e) ==
    LET req == << MkRequest("admin login", AdminPrefix, "token") >>
    IN  IF ~Client_hasAdminAuth(c) THEN
            [client |-> c, err |-> "admin token not configured", sent |-> <<>>]
        ELSE IF ~c.adminCookie.nil /\ ~(c.adminCookie.expires < w.now) THEN
            [client |-> c, err |-> "nil", sent |-> <<>>]
        ELSE IF e.admin = "fail" THEN
            [client |-> c, err |-> "admin auth failed", sent |-> req]
        ELSE IF e.admin = "nocookie" THEN
            [client |-> c, err |-> "admin auth successful but no VW_ADMIN cookie received",
             sent |-> req]
        ELSE [client |-> [c EXCEPT !.adminCookie =
                                MkCookie(IF e.admin = "session" THEN ZeroTime ELSE w.now + 1)],
              err |-> "nil", sent |-> req]

\* Client.ensureValidAuth (variant A); user is the record of the user flow
ensureValidAuth(c, w, path, e) ==
    IF requiresAuth(path) = "AuthMethodAdmin" THEN
        LET a == ensureValidAdminAuth(c, w, e)
        IN  [client |-> a.client, err |-> a.err, sent |-> a.sent,
             user |-> MkFlow(a.client, "nil", <<>>, NoKdf, NoKdf, NoResp)]
    ELSE
        LET u == ensureValidUserAuth(c, w, e)
        IN  [client |-> u.client, err |-> u.err, sent |-> AuthRequests(u.steps), user |-> u]

\* the answers of the server to the sends of one call: 401 to all but the
\* last one
StatusSeqs ==
    { [i \in 1..n |-> IF i < n THEN 401 ELSE s] : n \in 1..MaxSends, s \in {200, 401, 500} }

\* Client.doRequest (variant A); statuses are the server's answers in
\* order.  When the server has answered 401 to every send that statuses
\* covers, the call is still retrying: the model leaves it after that send.
RECURSIVE doRequest(_, _, _, _, _)
doRequest(c, w, path, e, statuses) ==
    LET authMethod == requiresAuth(path)
        Send(a) ==
            LET req == MkRequest("api", path,
                                 IF authMethod = "AuthMethodUser" THEN "bearer"
                                 ELSE IF ~a.client.adminCookie.nil THEN "cookie" ELSE "none")
                cleared == IF authMethod = "AuthMethodUser"
                           THEN [a.client EXCEPT !.accessToken = NoToken]
                           ELSE [a.client EXCEPT !.adminCookie = NoCookie]
            IN  IF a.err # "nil" THEN
                    [client |-> a.client, err |-> "authentication failed", sent |-> a.sent,
                     user |-> a.user]
                ELSE IF statuses = <<>> THEN
                    [client |-> a.client, err |-> "still retrying",
                     sent |-> a.sent \o <<req>>, user |-> a.user]
                ELSE IF Head(statuses) = 401 THEN
                    CHOOSE x \in { [r EXCEPT !.sent = a.sent \o <<req>> \o r.sent] :
                                     r \in {doRequest(cleared, w, path, e, Tail(statuses))} } :
                        TRUE
                ELSE IF Head(statuses) \in 200..299 THEN
                    [client |-> a.client, err |-> "nil", sent |-> a.sent \o <<req>>,
                     user |-> a.user]
                ELSE [client |-> a.client, err |-> "request failed",
                      sent |-> a.sent \o <<req>>, user |-> a.user]
    IN  CHOOSE x \in { Send(a) : a \in {ensureValidAuth(c, w, path, e)} } : TRUE

\* ------------------------------------------------------- organizations
\* keybuilder.GenerateSharedKey; sharedKey is what rand.Read filled in,
\* rsaEncOk whether RSAEncrypt succeeded
GenerateSharedKey(sharedKey, rsaEncOk) ==
    IF NewFromRawBytes(sharedKey).err # "nil" THEN
        [err |-> "error creating new symmetric crypto key", val |-> NilKey]
    ELSE IF ~rsaEncOk THEN [err |-> "error encrypting shared key", val |-> NilKey]
    ELSE [err |-> "nil", val |-> NewFromRawBytes(sharedKey).val]

\* keybuilder.EncryptRSAKeyPair; privateKeyBytes is the PKCS#8 encoding
EncryptRSAKeyPair(k, privateKeyBytes, randomIV, safeMode) ==
    LET enc == EncryptAsStringOf(privateKeyBytes, k, randomIV, safeMode)
    IN  IF enc.err # "nil" THEN [err |-> "error encrypting private key", val |-> <<>>]
        ELSE [err |-> "nil", val |-> enc.val]

\* keybuilder.GenerateEncryptedRSAKeyPair; rsaOk is whether rsa.GenerateKey
\* succeeded
GenerateEncryptedRSAKeyPair(k, rsaOk, randomIV, safeMode) ==
    IF ~rsaOk THEN [err |-> "error generating rsa key", val |-> <<>>]
    ELSE EncryptRSAKeyPair(k, RsaPkcs8, randomIV, safeMode)

\* what the outside and the caller contribute to one CreateOrganization:
\* the collection name, whether a billing email is given, the random
\* bytes, whether the RSA operations succeed, the server's answers
OrgInputs ==
    { [name |-> n, billing |-> b, sharedKey |-> Raw64b, iv |-> OrgIV,
       rsaEncOk |-> eo, rsaOk |-> ro, statuses |-> <<st>>] :
        n \in {DefaultCollection, <<>>}, b \in BOOLEAN, eo \in BOOLEAN, ro \in BOOLEAN,
        st \in {200, 500} }

\* the part of CreateOrganization after the authentication, the same in
\* both variants up to the request; tokenOk is whether the email can be
\* read from the access token; post is the result of the request.
\* "panic" is panic(err): the process aborts
CreateOrganizationBody(x, safeMode, tokenOk, postErr) ==
    LET shared == GenerateSharedKey(x.sharedKey, x.rsaEncOk)
        name == EncryptAsStringOf(x.name, shared.val, x.iv, safeMode)
        pair == GenerateEncryptedRSAKeyPair(shared.val, x.rsaOk, x.iv, safeMode)
    IN  IF shared.err # "nil" THEN "failed to generate shared key"
        ELSE IF name.err # "nil" THEN "failed to encrypt collection name"
        ELSE IF pair.err # "nil" THEN "panic"
        ELSE IF ~x.billing /\ ~tokenOk THEN "failed to get user email from token"
        ELSE IF postErr # "nil" THEN "failed to create organization"
        ELSE "nil"

\* Client.CreateOrganization: variant A authenticates with ensureValidAuth
\* and posts with doRequest, variant B with ensureUserAuth and its own
\* doRequest, which returns the error of any answer outside 2xx
CreateOrganization(c, w, e, x, safeMode) ==
    LET PostA(a, post) ==
            LET body == CreateOrganizationBody(x, safeMode, a.client.accessToken.jwt,
                                               post.err)
            IN  [client |-> IF body \in {"nil", "failed to create organization"}
                            THEN post.client ELSE a.client,
                 err |-> body]
        BodyA(a) ==
            IF a.err # "nil" THEN [client |-> a.client, err |-> "authentication required"]
            ELSE IF a.client.privateKey = "nil" THEN
                [client |-> a.client, err |-> "private key not available"]
            ELSE CHOOSE r \in { PostA(a, post) :
                                  post \in {doRequest(a.client, w, ApiOrganizations, e,
                                                      x.statuses)} } : TRUE
        BodyB(a) ==
            IF a.err # "nil" THEN [client |-> a.client, err |-> "authentication required"]
            ELSE [client |-> a.client,
                  err |-> CreateOrganizationBody(x, safeMode, a.client.accessToken.jwt,
                                                 IF Head(x.statuses) \in 200..299 THEN "nil"
                                                 ELSE "request failed")]
    IN  IF c.impl = "A"
        THEN CHOOSE r \in { BodyA(a) : a \in {ensureValidAuth(c, w, ApiOrganizations, e)} } :
                 TRUE
        ELSE CHOOSE r \in { BodyB(a) : a \in {ensureUserAuth(c, w, e)} } : TRUE

\* ------------------------------------------------- the state of a client
\* flow before any call
NoFlow ==
    [op |-> "none", err |-> "nil", steps |-> <<>>, token |-> NoToken, kdfWorld |-> NoKdf,
     path |-> <<>>, sent |-> <<>>]

\* the stage at which the call recorded in f failed, "none" if it did not
FailedStage(f) ==
    IF f.err # "nil" /\ f.steps # <<>> THEN f.steps[Len(f.steps)] ELSE "none"

\* the record of a call: u is the user flow it ran, token the access token
\* of the login response the flow processed, kdfWorld the parameter set of
\* the account at the time of the call
FlowOf(name, u, err, w, path, sent) ==
    [op |-> name, err |-> err, steps |-> u.steps, token |-> u.resp.AccessToken,
     kdfWorld |-> w.kdf, path |-> path, sent |-> sent]

\* ------------------------------------------------------ provider (package)
\* a types.String of the configuration: null, unknown, or a string
NullString == [null |-> TRUE, unknown |-> FALSE, value |-> ""]
UnknownString == [null |-> FALSE, unknown |-> TRUE, value |-> ""]
StringValue(v) == [null |-> FALSE, unknown |-> FALSE, value |-> v]

\* the attributes of VaultwardenProviderModel and the environment variables
\* they default to
ProviderAttributes ==
    {"Endpoint", "AdminToken", "Email", "MasterPassword", "ClientID", "ClientSecret"}

\* "Default values to environment variables, but override with Terraform
\* configuration value if set": os.Getenv gives "" for an unset variable
FromEnvOrConfig(data, environ, a) ==
    IF ~data[a].null THEN data[a].value ELSE environ[a]

\* the summaries of the diagnostics for unknown configuration values
UnknownDiagnostics(data, attrs) ==
    LET d(a, m) == IF a \in attrs /\ data[a].unknown THEN <<m>> ELSE <<>>
    IN  d("Endpoint", "Unknown Vaultwarden endpoint")
        \o d("AdminToken", "Unknown Vaultwarden admin token")
        \o d("Email", "Unknown Vaultwarden email")
        \o d("MasterPassword", "Unknown Vaultwarden master password")
        \o d("ClientID", "Unknown OAuth2 client ID")
        \o d("ClientSecret", "Unknown OAuth2 client secret")

\* VaultwardenProvider.Configure with the OAuth2 attributes: diags are the
\* summaries of the error diagnostics, opts the client options handed to
\* vaultwarden.New, client whether resp.ResourceData was set
Configure(data, environ) ==
    LET unknown == UnknownDiagnostics(data, ProviderAttributes)
        endpoint == FromEnvOrConfig(data, environ, "Endpoint")
        adminToken == FromEnvOrConfig(data, environ, "AdminToken")
        email == FromEnvOrConfig(data, environ, "Email")
        masterPassword == FromEnvOrConfig(data, environ, "MasterPassword")
        clientID == FromEnvOrConfig(data, environ, "ClientID")
        clientSecret == FromEnvOrConfig(data, environ, "ClientSecret")
        hasUserAuth == email # "" /\ masterPassword # ""
        hasAPIAuth == clientID # "" /\ clientSecret # ""
        diags ==
            (IF endpoint = "" THEN <<"Missing Vaultwarden endpoint">> ELSE <<>>)
            \o (IF ~hasUserAuth /\ ~hasAPIAuth
                THEN <<"Missing authentication credentials">> ELSE <<>>)
            \o (IF hasAPIAuth /\ ~hasUserAuth
                THEN <<"Invalid authentication configuration">> ELSE <<>>)
        opts ==
            (IF hasAPIAuth THEN <<"WithUserCredentials", "WithOAuth2Credentials">>
             ELSE <<"WithUserCredentials">>)
            \o (IF adminToken # "" THEN <<"WithAdminToken">> ELSE <<>>)
    IN  IF unknown # <<>> THEN [diags |-> unknown, opts |-> <<>>, client |-> FALSE]
        ELSE IF diags # <<>> THEN [diags |-> diags, opts |-> <<>>, client |-> FALSE]
        ELSE [diags |-> <<>>, opts |-> opts, client |-> TRUE]

\* VaultwardenProvider.Configure of the provider without the OAuth2
\* attributes (the second provider in provider.go)
ConfigureAdminOrUser(data, environ) ==
    LET unknown ==
            UnknownDiagnostics(data, {"Endpoint", "AdminToken", "Email", "MasterPassword"})
        endpoint == FromEnvOrConfig(data, environ, "Endpoint")
        adminToken == FromEnvOrConfig(data, environ, "AdminToken")
        email == FromEnvOrConfig(data, environ, "Email")
        masterPassword == FromEnvOrConfig(data, environ, "MasterPassword")
        diags ==
            (IF endpoint = "" THEN <<"Missing Vaultwarden endpoint">> ELSE <<>>)
            \o (IF adminToken = "" /\ (email = "" \/ masterPassword = "")
                THEN <<"Missing authentication credentials">> ELSE <<>>)
        opts ==
            (IF adminToken # "" THEN <<"WithAdminToken">> ELSE <<>>)
            \o (IF email # "" /\ masterPassword # "" THEN <<"WithCredentials">> ELSE <<>>)
    IN  IF unknown # <<>> THEN [diags |-> unknown, opts |-> <<>>, client |-> FALSE]
        ELSE IF diags # <<>> THEN [diags |-> diags, opts |-> <<>>, client |-> FALSE]
        ELSE [diags |-> <<>>, opts |-> opts, client |-> TRUE]

\* the configurations and environments of the model: every credential
\* attribute null, empty or set, every variable unset or set; one
\* attribute may be unknown
KnownStrings == {NullString, StringValue(""), StringValue("cfg")}

ProviderData ==
    [ProviderAttributes -> KnownStrings]
    \cup { [a \in ProviderAttributes |-> IF a = u THEN UnknownString ELSE NullString] :
             u \in ProviderAttributes }

ProviderEnvirons == [ProviderAttributes -> {"", "env"}]

\* prov before any call
NoProv == [op |-> "none"]

\* ---------------------------------------------- goroutines on one Client
\* how many goroutines call the client
NumGoroutines == 2

Goroutines == 1..NumGoroutines

\* the calls a goroutine makes: Get / Post / Put / Delete for a user path
\* or an admin path, and CreateOrganization
CallKinds == {"user", "admin", "org"}

CallPath(kind) == IF kind = "admin" THEN AdminPrefix ELSE ApiOrganizations

\* sync.RWMutex: mu is 0 when unlocked, else the goroutine that holds the
\* lock; Lock returns only when the mutex is unlocked
MutexLock_NoWait(mu, g) == TRUE

MutexLock(mu, g) == mu = 0

\* what the outside does while goroutines share the client: logins fail or
\* return a well-formed token with sound key texts, admin logins return a
\* session cookie or one with an expiry time
ConcEnvs(w) ==
    { e \in AuthEnvs(w) :
        /\ e.admin \in {"fail", "session", "expiring"}
        /\ e.loginOk => /\ e.resp.AccessToken.jwt
                        /\ e.resp.Key = ProtectedKey(w.kdf, "good")
                        /\ e.resp.PrivateKey = ProtectedPrivateKey("good") }

\* the position of a goroutine in doRequest / CreateOrganization:
\*   "idle"    before its call, "done" after it
\*   "lock"    at c.mu.Lock() of ensureValidAuth
\*   "locked"  in ensureValidAuth, before the check of the cached credential
\*   "login"   in ensureValidAuth, the login requests are in flight
\*   "unlock"  at the deferred c.mu.Unlock() of ensureValidAuth
\*   "readKey" at the test c.privateKey == nil of CreateOrganization
\*   "header"  at the read of c.accessToken / c.adminCookie for the request
\*   "send"    at httpClient.Do
\*   "relock"  at c.mu.Lock() after a 401
\*   "clear"   at the assignment that clears the credential
\* conc before any goroutine runs
NoConc ==
    [op |-> "none", mu |-> 0,
     pc |-> [g \in Goroutines |-> "idle"],
     kind |-> [g \in Goroutines |-> "user"],
     keyRead |-> [g \in Goroutines |-> FALSE],
     pending |-> [g \in Goroutines |-> NoClient],
     err |-> [g \in Goroutines |-> "nil"],
     waited |-> [g \in Goroutines |-> FALSE],
     answered401 |-> 0]

\* the positions at which a goroutine reads or writes accessToken,
\* privateKey or adminCookie, and the field
ReadsAt(pc, kind) ==
    IF pc = "locked" THEN IF kind = "admin" THEN {"adminCookie"}
                          ELSE {"accessToken", "privateKey"}
    ELSE IF pc = "readKey" THEN {"privateKey"}
    ELSE IF pc = "header" THEN IF kind = "admin" THEN {"adminCookie"} ELSE {"accessToken"}
    ELSE {}

\* a login flow writes when it succeeded (err is its error)
WritesAt(pc, kind, err) ==
    IF pc = "login" /\ err = "nil" THEN IF kind = "admin" THEN {"adminCookie"}
                                        ELSE {"accessToken", "privateKey"}
    ELSE IF pc = "clear" THEN IF kind = "admin" THEN {"adminCookie"} ELSE {"accessToken"}
    ELSE {}

\* enum before any call
NoEnum == [op |-> "none"]

\* ------------------------------------------- the organization secrets
\* the IDs a server gives an organization
OrgIDs == {"org1", "org2"}

\* the path of the collections of an organization
CollectionsPath(orgID) == ApiOrganizations \o <<"/", orgID, "/", "collections">>

\* c.AuthState.Organizations[id] = OrganizationSecret{Key: k, ...}
CacheSecret(c, id, k) ==
    [c EXCEPT !.Organizations =
        [i \in DOMAIN c.Organizations \cup {id} |-> IF i = id THEN k ELSE c.Organizations[i]]]

\* what the outside and the caller contribute to a CreateOrganization that
\* caches: as OrgInputs with a billing email and an RSA key pair, with
\* either value of the random bytes and the ID in the server's answer
CacheInputs ==
    { [name |-> DefaultCollection, billing |-> TRUE, sharedKey |-> sk, iv |-> OrgIV,
       rsaEncOk |-> eo, rsaOk |-> TRUE, statuses |-> <<st>>, id |-> id] :
        sk \in {Raw64a, Raw64b}, eo \in BOOLEAN, st \in {200, 500}, id \in OrgIDs }

\* what the outside does during one call that uses the cache: the login
\* fails, or succeeds with a response the client can or cannot decrypt
CacheEnvs(w) ==
    { e \in AuthEnvs(w) :
        /\ e.admin = "fail"
        /\ e.preloginOk = e.loginOk
        /\ e.loginOk => /\ e.resp.AccessToken.jwt
                        /\ e.resp.PrivateKey = ProtectedPrivateKey("good") }

\* CreateOrganization storing the secret whatever the request returned
CreateOrganization_CacheAlways(c, w, e, x, safeMode) ==
    CHOOSE q \in { [client |-> IF r.client.AuthStateNil THEN r.client
                               ELSE CacheSecret(r.client, x.id,
                                                NewFromRawBytes(x.sharedKey).val),
                    err |-> r.err] :
                     r \in {CreateOrganization(c, w, e, x, safeMode)} } : TRUE

\* Client.CreateOrganization of organization.go: after a successful
\* request the shared key is stored under the ID of the response
CreateOrganizationAndCache(c, w, e, x, safeMode) ==
    CHOOSE q \in { [client |-> IF r.err = "nil" /\ ~r.client.AuthStateNil
                               THEN CacheSecret(r.client, x.id,
                                                GenerateSharedKey(x.sharedKey, x.rsaEncOk).val)
                               ELSE r.client,
                    err |-> r.err] :
                     r \in {CreateOrganization(c, w, e, x, safeMode)} } : TRUE

\* Client.CreateOrganizationCollection (method POST) and
\* Client.UpdateOrganizationCollection (method PUT); status is the server's
\* answer to the collection request
OrganizationCollection(c, w, e, method, orgID, name, iv, safeMode, status) ==
    LET failed == IF method = "POST" THEN "failed to create organization collection"
                  ELSE "failed to update organization collection"
        Rest(a) ==
            IF a.err # "nil" THEN
                [client |-> a.client, err |-> "authentication required",
                 sent |-> AuthRequests(a.steps)]
            ELSE IF orgID \notin DOMAIN a.client.Organizations THEN
                [client |-> a.client, err |-> "organization not found in cache",
                 sent |-> AuthRequests(a.steps)]
            ELSE IF EncryptAsStringOf(name, a.client.Organizations[orgID], iv,
                                      safeMode).err # "nil" THEN
                [client |-> a.client, err |-> "failed to encrypt collection name",
                 sent |-> AuthRequests(a.steps)]
            ELSE [client |-> a.client,
                  err |-> IF status \in 200..299 THEN "nil" ELSE failed,
                  sent |-> AuthRequests(a.steps)
                           \o << MkRequest(method, CollectionsPath(orgID), "bearer") >>]
    IN  CHOOSE r \in { Rest(a) : a \in {ensureUserAuth(c, w, e)} } : TRUE

\* the record of a call that reads or writes the organization secrets
CacheFlow(name, err, sent, orgID, nameKey, status) ==
    [op |-> name, err |-> err, steps |-> <<>>, token |-> NoToken, kdfWorld |-> NoKdf,
     path |-> <<>>, sent |-> sent, orgID |-> orgID, nameKey |-> nameKey, status |-> status]

\* --------------------------------------- resource vaultwarden_account_register
\* the emails and passwords of accounts
Emails == {"a@x", "b@x"}
Passwords == {"p1", "p2"}

\* the accounts of a server: for each registered email its password and
\* its KDF parameter set
ServerAccounts(emails) == [emails -> [password : Passwords, kdf : 1..NumKdf]]

ServerStates == UNION { ServerAccounts(s) : s \in SUBSET Emails }

\* the parameter set the server's prelogin answer gives for an email: the
\* default one for an email it does not know
ServerPrelogin(accounts, email) ==
    IF email \in DOMAIN accounts THEN accounts[email].kdf ELSE 1

\* keybuilder.BuildPreloginKey as a function of all three arguments: the
\* derived key is different for different arguments
BuildPreloginKeyFor(password, email, kdf) ==
    [password |-> password, salt |-> email, kdf |-> kdf]

\* crypt.HashPassword: PBKDF2 of the key with the password as salt
HashPasswordFor(password, k) == [key |-> k, salt |-> password]

\* the server accepts a login of username with the hash of its password
ServerLogin(accounts, username, hashedPw) ==
    /\ username \in DOMAIN accounts
    /\ hashedPw = HashPasswordFor(accounts[username].password,
                                  BuildPreloginKeyFor(accounts[username].password, username,
                                                      accounts[username].kdf))

\* what the outside does during one Create: which of the requests get an
\* answer from the server, and whether rsa.GenerateKey succeeds; at most
\* one of them fails
CreateSteps == {"prelogin", "login", "rsa", "register", "fetch"}

CreateEnvs == { [f \in CreateSteps |-> f # bad] : bad \in CreateSteps \cup {"none"} }

\* a request of Create: PreLogin and LoginWithUserCredentials name the
\* email of the provider's credentials, RegisterUser and GetUserByEmail the
\* email of the plan
RegisterRequest(to, email, hashedPw) == [to |-> to, email |-> email, password |-> hashedPw]

NoHash == [key |-> BuildPreloginKeyFor("", "", 0), salt |-> ""]

\* Client.LoginWithUserCredentials taking the username from the plan
LoginWithUserCredentials_PlanEmail(credEmail, dataEmail, hashedPw) ==
    RegisterRequest("token", dataEmail, hashedPw)

\* Client.LoginWithUserCredentials as Create calls it: the username is
\* c.Credentials.Email
LoginWithUserCredentials(credEmail, dataEmail, hashedPw) ==
    RegisterRequest("token", credEmail, hashedPw)

\* AccountRegister.Create: credEmail is the email of the provider's
\* credentials, accounts the server's accounts, data the plan, state the
\* emails of the resources in the Terraform state
AccountRegister_Create(credEmail, accounts, state, data, e) ==
    LET pre == RegisterRequest("prelogin", credEmail, NoHash)
        kdf == ServerPrelogin(accounts, credEmail)
        preloginKey == BuildPreloginKeyFor(data.password, data.email, kdf)
        hashedPw == HashPasswordFor(data.password, preloginKey)
        login == LoginWithUserCredentials(credEmail, data.email, hashedPw)
        reg == RegisterRequest("register", data.email, hashedPw)
        get == RegisterRequest("users", data.email, NoHash)
        registered == [em \in DOMAIN accounts \cup {data.email} |->
                         IF em = data.email THEN [password |-> data.password, kdf |-> kdf]
                         ELSE accounts[em]]
        Ret(diag, sent, acc, st) ==
            [diags |-> diag, sent |-> sent, accounts |-> acc, state |-> st]
    IN  IF ~e.prelogin THEN Ret(<<"Error prelogin">>, <<pre>>, accounts, state)
        ELSE IF e.login /\ ServerLogin(accounts, login.email, login.password) THEN
            Ret(<<"User already exists">>, <<pre, login>>, accounts, state)
        ELSE IF ~e.rsa THEN
            Ret(<<"Error generating RSA key pair">>, <<pre, login>>, accounts, state)
        ELSE IF ~e.register \/ data.email \in DOMAIN accounts THEN
            Ret(<<"Error registering user">>, <<pre, login, reg>>, accounts, state)
        ELSE IF ~e.fetch THEN
            Ret(<<"Error fetching registered user">>, <<pre, login, reg, get>>, registered,
                state)
        ELSE Ret(<<>>, <<pre, login, reg, get>>, registered, state \cup {data.email})

\* ------------------------------------------------------ models (package)
UserOrgStatusRevoked == 0 - 1
UserOrgStatusInvited == 0
UserOrgStatusAccepted == 1
UserOrgStatusConfirmed == 2

UserOrgTypeOwner == 0
UserOrgTypeAdmin == 1
UserOrgTypeUser == 2
UserOrgTypeManager == 3

\* (*UserOrgStatus).String
UserOrgStatus_String(t) ==
    IF t = UserOrgStatusRevoked THEN "Revoked"
    ELSE IF t = UserOrgStatusInvited THEN "Invited"
    ELSE IF t = UserOrgStatusAccepted THEN "Accepted"
    ELSE IF t = UserOrgStatusConfirmed THEN "Confirmed"
    ELSE "Unknown"

\* FromString with the values counted from 0
UserOrgStatus_FromString_FromZero(t, s) ==
    IF s = "Revoked" THEN [t |-> 0, err |-> "nil"]
    ELSE IF s = "Invited" THEN [t |-> 1, err |-> "nil"]
    ELSE IF s = "Accepted" THEN [t |-> 2, err |-> "nil"]
    ELSE IF s = "Confirmed" THEN [t |-> 3, err |-> "nil"]
    ELSE [t |-> t, err |-> "invalid user organization status"]

\* (*UserOrgStatus).FromString: the receiver after the call and the error
UserOrgStatus_FromString(t, s) ==
    IF s = "Revoked" THEN [t |-> UserOrgStatusRevoked, err |-> "nil"]
    ELSE IF s = "Invited" THEN [t |-> UserOrgStatusInvited, err |-> "nil"]
    ELSE IF s = "Accepted" THEN [t |-> UserOrgStatusAccepted, err |-> "nil"]
    ELSE IF s = "Confirmed" THEN [t |-> UserOrgStatusConfirmed, err |-> "nil"]
    ELSE [t |-> t, err |-> "invalid user organization status"]

\* (*UserOrgType).String
UserOrgType_String(t) ==
    IF t = UserOrgTypeOwner THEN "Owner"
    ELSE IF t = UserOrgTypeAdmin THEN "Admin"
    ELSE IF t = UserOrgTypeUser THEN "User"
    ELSE IF t = UserOrgTypeManager THEN "Manager"
    ELSE "Unknown"

\* (*UserOrgType).FromString
UserOrgType_FromString(t, s) ==
    IF s = "Owner" THEN [t |-> UserOrgTypeOwner, err |-> "nil"]
    ELSE IF s = "Admin" THEN [t |-> UserOrgTypeAdmin, err |-> "nil"]
    ELSE IF s = "User" THEN [t |-> UserOrgTypeUser, err |-> "nil"]
    ELSE IF s = "Manager" THEN [t |-> UserOrgTypeManager, err |-> "nil"]
    ELSE [t |-> t, err |-> "invalid user organization type"]

\* int64 values around the defined ones, and two far from them
EnumValues == (0 - 3)..5 \cup {0 - 2147483647, 2147483647}

\* strings a caller passes to FromString
EnumStrings ==
    { "Revoked", "Invited", "Accepted", "Confirmed", "Owner", "Admin", "User", "Manager",
      "Unknown", "", "owner", "REVOKED", "InvalidType", "0", "Accepted " }

\* -------------------------------------------------------------- the state
Init ==
    /\ SafeMode = TRUE
    /\ op = "init"
    /\ plain = <<>>
    /\ key = NilKey
    /\ dkey = NilKey
    /\ orig = NilEncString
    /\ origSrc = "none"
    /\ env = NilEncString
    /\ envSrc = "none"
    /\ peer = NoPeer
    /\ text = <<>>
    /\ out = <<>>
    /\ res = NoRes
    /\ client = NoClient
    /\ world = [now |-> 0, kdf |-> 1]
    /\ memo = InitMemo
    /\ flow = NoFlow
    /\ prov = NoProv
    /\ conc = NoConc
    /\ enum = NoEnum

\* a caller assigns the exported variable crypt.SafeMode
DoSetSafeMode ==
    /\ op = "init"
    /\ SafeMode' = ~SafeMode
    /\ UNCHANGED <<restVars, client, world, memo, flow, op, plain, key, dkey, orig, origSrc, env, envSrc, peer, text, out, res>>

\* a call of crypt.Encrypt
DoEncrypt ==
    /\ op = "init"
    /\ \E p \in Plaintexts, k \in Keys, iv \in RandomIVs :
        LET r == Encrypt(p, k, iv, SafeMode)
        IN  /\ plain' = p
            /\ key' = k
            /\ res' = r
            /\ orig' = r.val
            /\ env' = r.val
            /\ origSrc' = IF r.err = "nil" THEN "Encrypt" ELSE "none"
            /\ envSrc' = IF r.err = "nil" THEN "Encrypt" ELSE "none"
    /\ op' = "Encrypt"
    /\ UNCHANGED <<restVars, client, world, memo, flow, SafeMode, dkey, peer, text, out>>

\* keys with no encryption sub-key: the zero value, and one with only an
\* authentication sub-key
EmptyKeys == {NilKey, MkKey(AesCbc256_HmacSha256_B64, <<>>, <<>>, SubSeq(Raw64a, 33, 64))}

\* a call of crypt.Encrypt by a caller that does not check its arguments
DoEncryptAny ==
    /\ op = "init"
    /\ \E p \in Plaintexts \cup {<<>>}, k \in Keys \cup EmptyKeys, iv \in RandomIVs :
        LET r == Encrypt(p, k, iv, SafeMode)
        IN  /\ plain' = p
            /\ key' = k
            /\ res' = r
            /\ orig' = r.val
            /\ env' = r.val
            /\ origSrc' = IF r.err = "nil" THEN "Encrypt" ELSE "none"
            /\ envSrc' = IF r.err = "nil" THEN "Encrypt" ELSE "none"
    /\ op' = "Encrypt"
    /\ UNCHANGED <<restVars, client, world, memo, flow, SafeMode, dkey, peer, text, out>>

\* a call of crypt.EncryptAsString; orig keeps the envelope Encrypt built
\* for it
DoEncryptAsString ==
    /\ op = "init"
    /\ \E p \in Plaintexts, k \in Keys, iv \in RandomIVs :
        LET r == EncryptAsString(p, k, iv, SafeMode)
        IN  /\ plain' = p
            /\ key' = k
            /\ res' = r
            /\ out' = r.val
            /\ orig' = Encrypt(p, k, iv, SafeMode).val
            /\ origSrc' = IF r.err = "nil" THEN "Encrypt" ELSE "none"
    /\ op' = "EncryptAsString"
    /\ UNCHANGED <<restVars, client, world, memo, flow, SafeMode, dkey, env, envSrc, peer, text>>

\* a call of encryptedstring.New for an RSA-scheme envelope: no IV, no MAC
DoNew ==
    /\ op = "init"
    /\ \E t \in {Rsa2048_OaepSha256_B64, Rsa2048_OaepSha1_B64}, d \in RsaCiphertexts :
        LET e == New(<<>>, d, <<>>, MkKey(t, <<>>, <<>>, <<>>))
        IN  /\ orig' = e
            /\ env' = e
    /\ origSrc' = "New"
    /\ envSrc' = "New"
    /\ op' = "New"
    /\ UNCHANGED <<restVars, client, world, memo, flow, SafeMode, plain, key, dkey, peer, text, out, res>>

\* a text arrives that a peer made
DoReceivePeer ==
    /\ op = "init"
    /\ \E t \in TagTexts, p \in PeerPlaintexts, k \in PeerKeys,
          ivv \in {"good", "short", "none", "absent"},
          dv \in {"good", "cut", "none"},
          mv \in {"good", "bad", "short", "empty", "none"} :
        /\ text' = PeerText(t, p, k, ivv, dv, mv)
        /\ plain' = p
        /\ key' = k
        /\ peer' = [kind |-> "peer", tag |-> t, iv |-> ivv, data |-> dv, mac |-> mv]
    /\ op' = "Receive"
    /\ UNCHANGED <<restVars, client, world, memo, flow, SafeMode, dkey, orig, origSrc, env, envSrc, out, res>>

\* an arbitrary text arrives
DoReceiveAny ==
    /\ op = "init"
    /\ \E t \in AnyTexts : text' = t
    /\ peer' = [NoPeer EXCEPT !.kind = "any"]
    /\ op' = "Receive"
    /\ UNCHANGED <<restVars, client, world, memo, flow, SafeMode, plain, key, dkey, orig, origSrc, env, envSrc, out, res>>

\* lengths of key material around the two lengths NewFromRawBytes accepts
KeyMaterialLens == {0, 31, 32, 33, 63, 64, 65}

KeyMaterials == {MkBytes(40 + n, n) : n \in KeyMaterialLens}

\* what rand.Read fills the 64 bytes of a fresh key with
FreshKeys == {Raw64a, Raw64b}

\* Key values with a raw length NewFromRawBytes never returns: the zero
\* value and struct literals of 16 and of 96 raw bytes
OddKeys ==
    { NilKey,
      MkKey(AesCbc256_B64, MkBytes(6, 16), MkBytes(6, 16), <<>>),
      MkKey(AesCbc256_HmacSha256_B64, MkBytes(5, 96), MkBytes(5, 32),
            SubSeq(MkBytes(5, 96), 33, 64)) }

\* the server returns the account's protected key: key material a client
\* encrypted under the stretched prelogin key
DoReceiveKeyEnvelope ==
    /\ op = "init"
    /\ \E m \in KeyMaterials, k \in PreloginKeys :
        /\ text' = PeerText(<<"2", ".">>, m, StretchKey(k), "good", "good", "good")
        /\ plain' = m
        /\ key' = k
    /\ peer' = [NoPeer EXCEPT !.kind = "keyenv"]
    /\ op' = "Receive"
    /\ UNCHANGED <<restVars, client, world, memo, flow, SafeMode, dkey, orig, origSrc, env, envSrc, out, res>>

\* a call of keybuilder.EncryptEncryptionKey
DoEncryptEncryptionKey ==
    /\ op = "init"
    /\ \E k \in Keys \cup OddKeys, m \in KeyMaterials, iv \in RandomIVs :
        LET r == EncryptEncryptionKey(k, m, iv, SafeMode)
        IN  /\ plain' = m
            /\ key' = k
            /\ res' = r
            /\ text' = r.text
    /\ peer' = [NoPeer EXCEPT !.kind = "wrapped"]
    /\ op' = "EncryptEncryptionKey"
    /\ UNCHANGED <<restVars, client, world, memo, flow, SafeMode, dkey, orig, origSrc, env, envSrc, out>>

\* a call of keybuilder.GenerateEncryptionKey
DoGenerateEncryptionKey ==
    /\ op = "init"
    /\ \E k \in Keys \cup OddKeys, m \in FreshKeys, iv \in RandomIVs :
        LET r == GenerateEncryptionKey(k, m, iv, SafeMode)
        IN  /\ plain' = m
            /\ key' = k
            /\ res' = r
            /\ text' = r.text
    /\ peer' = [NoPeer EXCEPT !.kind = "wrapped"]
    /\ op' = "GenerateEncryptionKey"
    /\ UNCHANGED <<restVars, client, world, memo, flow, SafeMode, dkey, orig, origSrc, env, envSrc, out>>

\* the values of the final byte of a buffer a peer encrypts without padding
\* it: the ones around the limits of pkcs5Unpadding
PadBytes == {0, 1, BlockSize - 1, BlockSize, BlockSize + 1, 255} \cup {BlockSize * n : n \in 1..MaxBlocks}

\* whole blocks, the final byte chosen
RawBuffers ==
    {[MkBytes(70 + n, BlockSize * n) EXCEPT ![BlockSize * n] = b] : n \in 1..MaxBlocks, b \in PadBytes}

\* the text of an envelope a holder of the key k made with AES-CBC and
\* HMAC over the buffer as it is, with no padding added
RawText(buf, k, iv) ==
    LET data == CBCEncrypt(k.EncryptionKey, iv, buf)
    IN  String(New(iv, data, HMACSum(iv \o data, k.MacKey), k))

\* a text arrives that a holder of the key made without pkcs5Padding
DoReceiveRaw ==
    /\ op = "init"
    /\ \E buf \in RawBuffers, k \in {Key64a, Key64b}, iv \in RandomIVs :
        /\ text' = RawText(buf, k, iv)
        /\ plain' = buf
        /\ key' = k
    /\ peer' = [NoPeer EXCEPT !.kind = "raw"]
    /\ op' = "Receive"
    /\ UNCHANGED <<restVars, client, world, memo, flow, SafeMode, dkey, orig, origSrc, env, envSrc, out, res>>

\* a call of encryptedstring.NewFromEncryptedValue on the received text
DoParse ==
    /\ op = "Receive"
    /\ LET r == NewFromEncryptedValue(text)
       IN  /\ res' = r
           /\ orig' = r.val
           /\ env' = r.val
           /\ origSrc' = IF r.err = "nil" THEN "Parse" ELSE "none"
           /\ envSrc' = IF r.err = "nil" THEN "Parse" ELSE "none"
    /\ op' = "Parse"
    /\ UNCHANGED <<restVars, client, world, memo, flow, SafeMode, plain, key, dkey, peer, text, out>>

\* a call of EncryptedString.String on the envelope in hand
DoString ==
    /\ op \in {"Encrypt", "Parse", "New"}
    /\ envSrc # "none"
    /\ out' = String(env)
    /\ op' = "String"
    /\ UNCHANGED <<restVars, client, world, memo, flow, SafeMode, plain, key, dkey, orig, origSrc, env, envSrc, peer, text, res>>

\* a call of encryptedstring.NewFromEncryptedValue on a text the library
\* itself produced
DoReparse ==
    /\ \/ op = "String"
       \/ op = "EncryptAsString" /\ res.err = "nil"
    /\ LET r == NewFromEncryptedValue(out)
       IN  /\ res' = r
           /\ env' = r.val
           /\ envSrc' = IF r.err = "nil" THEN "Reparse" ELSE "none"
    /\ op' = "Reparse"
    /\ UNCHANGED <<restVars, client, world, memo, flow, SafeMode, plain, key, dkey, orig, origSrc, peer, text, out>>

\* a call of crypt.Decrypt on the envelope in hand
DoDecrypt ==
    /\ op \in {"Encrypt", "Tamper", "Parse", "Reparse"}
    /\ envSrc # "none"
    /\ \E k \in Keys :
        /\ dkey' = k
        /\ res' = Decrypt(env, k)
    /\ op' = "Decrypt"
    /\ UNCHANGED <<restVars, client, world, memo, flow, SafeMode, plain, key, orig, origSrc, env, envSrc, peer, text, out>>

\* a call of crypt.DecryptEncryptionKey on the received text
DoDecryptEncryptionKey ==
    /\ \/ op = "Receive"
       \/ op \in {"EncryptEncryptionKey", "GenerateEncryptionKey"} /\ Len(text) > 0
    /\ \E k \in PreloginKeys :
        /\ dkey' = k
        /\ res' = DecryptEncryptionKey(text, k)
    /\ op' = "DecryptEncryptionKey"
    /\ UNCHANGED <<restVars, client, world, memo, flow, SafeMode, plain, key, orig, origSrc, env, envSrc, peer, text, out>>

FlipBit(b, bit) == Xor(b, Pow2(bit))

FlipAt(bytes, pos, bit) == [bytes EXCEPT ![pos] = FlipBit(bytes[pos], bit)]

\* somebody between the two ends changes one bit of the IV or of the
\* ciphertext of an envelope Encrypt returned
DoTamper ==
    /\ op = "Encrypt"
    /\ envSrc = "Encrypt"
    /\ \/ \E pos \in 1..Len(env.IV), bit \in 0..7 :
            /\ env' = [env EXCEPT !.IV = FlipAt(env.IV, pos, bit)]
            /\ envSrc' = "TamperIV"
       \/ \E pos \in 1..Len(env.Data), bit \in 0..7 :
            /\ env' = [env EXCEPT !.Data = FlipAt(env.Data, pos, bit)]
            /\ envSrc' = "TamperData"
    /\ op' = "Tamper"
    /\ UNCHANGED <<restVars, client, world, memo, flow, SafeMode, plain, key, dkey, orig, origSrc, peer, text, out, res>>

cryptVars ==
    <<SafeMode, op, plain, key, dkey, orig, origSrc, env, envSrc, peer, text, out, res>>

\* vaultwarden.New with its options: variant A with or without user
\* credentials and admin token, variant B with one of its login methods
DoNewClient ==
    /\ client = NoClient
    /\ \/ \E u \in BOOLEAN, a \in BOOLEAN :
            client' = [NoClient EXCEPT !.impl = "A", !.hasUser = u, !.adminToken = a]
       \/ \E m \in {"UserPassword", "OAuth2", "none"} :
            client' = [NoClient EXCEPT !.impl = "B", !.hasUser = TRUE, !.userAuthMethod = m]
    /\ flow' = NoFlow
    /\ UNCHANGED <<world, memo, cryptVars, restVars>>

\* time passes
Tick ==
    /\ world.now < MaxNow
    /\ world' = [world EXCEPT !.now = world.now + 1]
    /\ UNCHANGED <<client, memo, flow, cryptVars, restVars>>

\* the account's KDF parameters change on the server (a change of the
\* master password or of the KDF settings made elsewhere)
DoServerChangeKdf ==
    /\ \E k \in KdfConfigs \ {world.kdf} : world' = [world EXCEPT !.kdf = k]
    /\ UNCHANGED <<client, memo, flow, cryptVars, restVars>>

\* a call of Client.ensureValidAuth for a user path (variant A)
DoEnsureValidUserAuth ==
    /\ client.impl = "A"
    /\ \E e \in AuthEnvs(world) :
        \E a \in {ensureValidAuth(client, world, ApiOrganizations, e)} :
            /\ client' = a.client
            /\ flow' = FlowOf("ensureValidAuth", a.user, a.err, world, ApiOrganizations,
                              a.sent)
    /\ UNCHANGED <<world, memo, cryptVars, restVars>>

\* a call of Client.ensureUserAuth (variant B)
DoEnsureUserAuth ==
    /\ client.impl = "B"
    /\ \E e \in AuthEnvs(world) :
        \E a \in {ensureUserAuth(client, world, e)} :
            /\ client' = a.client
            /\ flow' = FlowOf("ensureUserAuth", a, a.err, world, <<>>, AuthRequests(a.steps))
    /\ UNCHANGED <<world, memo, cryptVars, restVars>>

\* a call of Get / Post / Put / Delete (variant A)
DoRequest ==
    /\ client.impl = "A"
    /\ \E path \in Paths, e \in AuthEnvs(world), statuses \in StatusSeqs :
        \E r \in {doRequest(client, world, path, e, statuses)} :
            /\ client' = r.client
            /\ flow' = [NoFlow EXCEPT !.op = "doRequest", !.err = r.err,
                                      !.kdfWorld = world.kdf, !.path = path, !.sent = r.sent]
    /\ UNCHANGED <<world, memo, cryptVars, restVars>>

\* a call of Client.CreateOrganization
DoCreateOrganization ==
    /\ client.impl \in {"A", "B"}
    /\ \E e \in AuthEnvs(world), x \in OrgInputs :
        \E r \in {CreateOrganization(client, world, e, x, SafeMode)} :
            /\ client' = r.client
            /\ flow' = [NoFlow EXCEPT !.op = "CreateOrganization", !.err = r.err,
                                      !.kdfWorld = world.kdf]
    /\ UNCHANGED <<world, memo, cryptVars, restVars>>

\* terraform calls Configure of the provider with the OAuth2 attributes
DoConfigure ==
    /\ prov.op = "none"
    /\ \E data \in ProviderData, environ \in ProviderEnvirons :
        \E r \in {Configure(data, environ)} :
            prov' = [op |-> "Configure", data |-> data, environ |-> environ,
                     diags |-> r.diags, opts |-> r.opts, client |-> r.client]
    /\ UNCHANGED <<client, world, memo, flow, conc, enum, cryptVars>>

\* terraform calls Configure of the provider without the OAuth2 attributes
DoConfigureAdminOrUser ==
    /\ prov.op = "none"
    /\ \E data \in ProviderData, environ \in ProviderEnvirons :
        /\ data["ClientID"] = NullString
        /\ data["ClientSecret"] = NullString
        /\ \E r \in {ConfigureAdminOrUser(data, environ)} :
            prov' = [op |-> "ConfigureAdminOrUser", data |-> data, environ |-> environ,
                     diags |-> r.diags, opts |-> r.opts, client |-> r.client]
    /\ UNCHANGED <<client, world, memo, flow, conc, enum, cryptVars>>

\* a goroutine calls Get / Post / Put / Delete or CreateOrganization
GoCall(g) ==
    /\ client.impl = "A"
    /\ conc.pc[g] = "idle"
    /\ \E k \in CallKinds :
        conc' = [conc EXCEPT !.op = "call", !.pc[g] = "lock", !.kind[g] = k]
    /\ UNCHANGED <<client, world, memo, flow, prov, enum, cryptVars>>

\* c.mu.Lock() in ensureValidAuth
GoLock(g) ==
    /\ conc.pc[g] = "lock"
    /\ MutexLock(conc.mu, g)
    /\ conc' = [conc EXCEPT !.op = "lock", !.mu = g, !.pc[g] = "locked"]
    /\ UNCHANGED <<client, world, memo, flow, prov, enum, cryptVars>>

\* ensureValidAuth under the lock, up to the requests of a login: with a
\* valid cached credential (or none configured) it returns at once;
\* otherwise the login requests go out, and the goroutines at c.mu.Lock()
\* wait for the flow
GoAuth(g) ==
    /\ conc.pc[g] = "locked"
    /\ \E e \in ConcEnvs(world) :
        \E a \in {ensureValidAuth(client, world, CallPath(conc.kind[g]), e)} :
            IF a.sent = <<>>
            THEN conc' = [conc EXCEPT !.op = "auth", !.pc[g] = "unlock", !.err[g] = a.err]
            ELSE conc' = [conc EXCEPT !.op = "auth", !.pc[g] = "login", !.err[g] = a.err,
                                      !.pending[g] = a.client,
                                      !.waited = [h \in Goroutines |->
                                                    conc.waited[h] \/ conc.pc[h] = "lock"]]
    /\ UNCHANGED <<client, world, memo, flow, prov, enum, cryptVars>>

\* the login flow ends: processLoginResponse / ensureValidAdminAuth store
\* what they received (pending is the client unchanged when the flow failed)
GoStore(g) ==
    /\ conc.pc[g] = "login"
    /\ client' = [client EXCEPT !.accessToken = conc.pending[g].accessToken,
                                !.privateKey = conc.pending[g].privateKey,
                                !.adminCookie = conc.pending[g].adminCookie]
    /\ conc' = [conc EXCEPT !.op = "store", !.pc[g] = "unlock", !.pending[g] = NoClient]
    /\ UNCHANGED <<world, memo, flow, prov, enum, cryptVars>>

\* the deferred c.mu.Unlock() of ensureValidAuth, and the return to
\* doRequest or CreateOrganization
GoUnlock(g) ==
    /\ conc.pc[g] = "unlock"
    /\ conc' = [conc EXCEPT !.op = "unlock", !.mu = 0, !.waited[g] = FALSE,
                            !.pc[g] = IF conc.err[g] # "nil" THEN "done"
                                      ELSE IF conc.kind[g] = "org" /\ ~conc.keyRead[g]
                                      THEN "readKey"
                                      ELSE "header"]
    /\ UNCHANGED <<client, world, memo, flow, prov, enum, cryptVars>>

\* CreateOrganization tests c.privateKey and goes on to c.Post
GoReadKey(g) ==
    /\ conc.pc[g] = "readKey"
    /\ conc' = IF client.privateKey = "nil"
               THEN [conc EXCEPT !.op = "readKey", !.pc[g] = "done",
                                 !.err[g] = "private key not available"]
               ELSE [conc EXCEPT !.op = "readKey", !.pc[g] = "lock", !.keyRead[g] = TRUE]
    /\ UNCHANGED <<client, world, memo, flow, prov, enum, cryptVars>>

\* doRequest reads c.accessToken or c.adminCookie into the request
GoHeader(g) ==
    /\ conc.pc[g] = "header"
    /\ conc' = [conc EXCEPT !.op = "header", !.pc[g] = "send"]
    /\ UNCHANGED <<client, world, memo, flow, prov, enum, cryptVars>>

\* httpClient.Do and the answer of the server
GoSend(g) ==
    /\ conc.pc[g] = "send"
    /\ \E status \in {200, 401, 500} :
        /\ status = 401 => conc.answered401 < MaxSends
        /\ conc' = IF status = 401
                   THEN [conc EXCEPT !.op = "send", !.pc[g] = "relock",
                                     !.answered401 = conc.answered401 + 1]
                   ELSE [conc EXCEPT !.op = "send", !.pc[g] = "done",
                                     !.err[g] = IF status = 200 THEN "nil"
                                                ELSE "request failed"]
    /\ UNCHANGED <<client, world, memo, flow, prov, enum, cryptVars>>

\* c.mu.Lock() after a 401
GoRelock(g) ==
    /\ conc.pc[g] = "relock"
    /\ MutexLock(conc.mu, g)
    /\ conc' = [conc EXCEPT !.op = "relock", !.mu = g, !.pc[g] = "clear"]
    /\ UNCHANGED <<client, world, memo, flow, prov, enum, cryptVars>>

\* the credential is cleared, c.mu.Unlock(), and doRequest calls itself
GoClear(g) ==
    /\ conc.pc[g] = "clear"
    /\ client' = IF conc.kind[g] = "admin" THEN [client EXCEPT !.adminCookie = NoCookie]
                 ELSE [client EXCEPT !.accessToken = NoToken]
    /\ conc' = [conc EXCEPT !.op = "clear", !.mu = 0, !.pc[g] = "lock"]
    /\ UNCHANGED <<world, memo, flow, prov, enum, cryptVars>>

Go(g) ==
    \/ GoCall(g) \/ GoLock(g) \/ GoAuth(g) \/ GoStore(g) \/ GoUnlock(g) \/ GoReadKey(g)
    \/ GoHeader(g) \/ GoSend(g) \/ GoRelock(g) \/ GoClear(g)

\* a call of Client.CreateOrganization of organization.go
DoCreateOrganizationAndCache ==
    /\ client.impl = "B"
    /\ \E e \in CacheEnvs(world), x \in CacheInputs :
        \E r \in {CreateOrganizationAndCache(client, world, e, x, SafeMode)} :
            /\ client' = r.client
            /\ flow' = CacheFlow("CreateOrganizationAndCache", r.err, <<>>, x.id,
                                 GenerateSharedKey(x.sharedKey, x.rsaEncOk).val,
                                 Head(x.statuses))
    /\ UNCHANGED <<world, memo, cryptVars, restVars>>

\* a call of Client.CreateOrganizationCollection or of
\* Client.UpdateOrganizationCollection
DoOrganizationCollection ==
    /\ client.impl = "B"
    /\ \E e \in CacheEnvs(world), method \in {"POST", "PUT"}, orgID \in OrgIDs,
          status \in {200, 500} :
        \E r \in {OrganizationCollection(client, world, e, method, orgID, DefaultCollection,
                                         OrgIV, SafeMode, status)} :
            /\ client' = r.client
            /\ flow' = CacheFlow(IF method = "POST" THEN "CreateOrganizationCollection"
                                 ELSE "UpdateOrganizationCollection",
                                 r.err, r.sent, orgID, NilKey, status)
    /\ UNCHANGED <<world, memo, cryptVars, restVars>>

\* AccountRegister.Configure: the resource gets the provider's client; the
\* server has some accounts
DoAccountRegisterConfigure ==
    /\ prov.op = "none"
    /\ \E credEmail \in Emails, accounts \in ServerStates :
        prov' = [op |-> "AccountRegister.Configure", credEmail |-> credEmail,
                 accounts |-> accounts, state |-> {}, data |-> [email |-> "", password |-> ""],
                 existed |-> FALSE, env |-> CHOOSE e \in CreateEnvs : TRUE,
                 diags |-> <<>>, sent |-> <<>>, wrote |-> FALSE]
    /\ UNCHANGED <<client, world, memo, flow, conc, enum, cryptVars>>

\* a call of AccountRegister.Create
DoAccountRegisterCreate ==
    /\ prov.op \in {"AccountRegister.Configure", "AccountRegister.Create"}
    /\ \E email \in Emails, password \in Passwords, e \in CreateEnvs :
        \E r \in {AccountRegister_Create(prov.credEmail, prov.accounts, prov.state,
                                         [email |-> email, password |-> password], e)} :
            prov' = [op |-> "AccountRegister.Create", credEmail |-> prov.credEmail,
                     accounts |-> r.accounts, state |-> r.state,
                     data |-> [email |-> email, password |-> password],
                     existed |-> /\ email \in DOMAIN prov.accounts
                                 /\ prov.accounts[email].password = password,
                     env |-> e, diags |-> r.diags, sent |-> r.sent,
                     wrote |-> r.state # prov.state]
    /\ UNCHANGED <<client, world, memo, flow, conc, enum, cryptVars>>

\* a call of String on a UserOrgType or UserOrgStatus of value v
DoEnumString ==
    /\ enum.op \in {"none", "FromString"}
    /\ \E kind \in {"UserOrgType", "UserOrgStatus"}, v \in EnumValues :
        enum' = [op |-> "String", kind |-> kind, v |-> v,
                 s |-> IF kind = "UserOrgType" THEN UserOrgType_String(v)
                       ELSE UserOrgStatus_String(v),
                 before |-> v, after |-> v, err |-> "nil", ofString |-> FALSE]
    /\ UNCHANGED <<client, world, memo, flow, prov, conc, cryptVars>>

\* a call of FromString on a receiver holding the value before, with the
\* string the last String returned or with a string of the caller
DoEnumFromString ==
    /\ enum.op = "String"
    /\ \E s \in EnumStrings \cup {enum.s}, before \in (0 - 1)..3 :
        \E r \in {IF enum.kind = "UserOrgType" THEN UserOrgType_FromString(before, s)
                  ELSE UserOrgStatus_FromString(before, s)} :
            enum' = [enum EXCEPT !.op = "FromString", !.s = s, !.before = before,
                                 !.after = r.t, !.err = r.err, !.ofString = (s = enum.s)]
    /\ UNCHANGED <<client, world, memo, flow, prov, conc, cryptVars>>

\* ----------------------------------------------------- the specifications
NextRoundTrip == DoSetSafeMode \/ DoEncrypt \/ DoDecrypt

SpecRoundTrip == Init /\ [][NextRoundTrip]_vars

NextTamper == DoSetSafeMode \/ DoEncrypt \/ DoTamper \/ DoDecrypt

SpecTamper == Init /\ [][NextTamper]_vars

NextDecrypt == DoReceivePeer \/ DoParse \/ DoDecrypt

SpecDecrypt == Init /\ [][NextDecrypt]_vars

NextEnvelope ==
    DoSetSafeMode \/ DoEncrypt \/ DoEncryptAsString \/ DoNew \/ DoString \/ DoReparse \/ DoDecrypt

SpecEnvelope == Init /\ [][NextEnvelope]_vars

NextKeys == DoReceivePeer \/ DoDecryptEncryptionKey

SpecKeys == Init /\ [][NextKeys]_vars

NextParse == DoReceivePeer \/ DoReceiveAny \/ DoParse \/ DoString \/ DoReparse

SpecParse == Init /\ [][NextParse]_vars

NextKeyMaterial ==
    \/ DoSetSafeMode \/ DoReceiveKeyEnvelope \/ DoEncryptEncryptionKey
    \/ DoGenerateEncryptionKey \/ DoDecryptEncryptionKey

SpecKeyMaterial == Init /\ [][NextKeyMaterial]_vars

NextEncryptAny == DoSetSafeMode \/ DoEncryptAny \/ DoDecrypt

SpecEncryptAny == Init /\ [][NextEncryptAny]_vars

NextPadding == DoReceiveRaw \/ DoParse \/ DoDecrypt

SpecPadding == Init /\ [][NextPadding]_vars

NextAuth ==
    DoNewClient \/ Tick \/ DoServerChangeKdf \/ DoEnsureValidUserAuth \/ DoEnsureUserAuth

SpecAuth == Init /\ [][NextAuth]_vars

NextRequest == DoNewClient \/ DoRequest

SpecRequest == Init /\ [][NextRequest]_vars

NextOrganization == DoSetSafeMode \/ DoNewClient \/ Tick \/ DoCreateOrganization

SpecOrganization == Init /\ [][NextOrganization]_vars

\* one specification with every operation
NextConfigure == DoConfigure \/ DoConfigureAdminOrUser
SpecConfigure == Init /\ [][NextConfigure]_vars

NextConcurrent == DoNewClient \/ \E g \in Goroutines : Go(g)
SpecConcurrent == Init /\ [][NextConcurrent]_vars

NextCache == DoNewClient \/ Tick \/ DoCreateOrganizationAndCache \/ DoOrganizationCollection

SpecCache == Init /\ [][NextCache]_vars

NextRegister == DoAccountRegisterConfigure \/ DoAccountRegisterCreate

SpecRegister == Init /\ [][NextRegister]_vars

NextEnum == DoEnumString \/ DoEnumFromString

SpecEnum == Init /\ [][NextEnum]_vars

Next ==
    \/ DoSetSafeMode \/ DoEncrypt \/ DoEncryptAsString \/ DoNew \/ DoReceivePeer \/ DoReceiveAny
    \/ DoReceiveRaw \/ DoEncryptAny \/ DoReceiveKeyEnvelope \/ DoEncryptEncryptionKey
    \/ DoGenerateEncryptionKey \/ DoParse \/ DoString \/ DoReparse \/ DoDecrypt \/ DoDecryptEncryptionKey
    \/ DoTamper \/ DoNewClient \/ Tick \/ DoServerChangeKdf \/ DoEnsureValidUserAuth
    \/ DoEnsureUserAuth \/ DoRequest \/ DoCreateOrganization
    \/ DoConfigure \/ DoConfigureAdminOrUser
    \/ (\E g \in Goroutines : Go(g))
    \/ DoCreateOrganizationAndCache \/ DoOrganizationCollection
    \/ DoAccountRegisterConfigure \/ DoAccountRegisterCreate
    \/ DoEnumString \/ DoEnumFromString

Spec == Init /\ [][Next]_vars

\* ------------------------------------------------------------ the claims
\* C1: for every non-empty plaintext p and every valid key k (32 raw bytes
\* or 64 raw bytes), Encrypt(p, k) succeeds and Decrypt(Encrypt(p, k), k)
\* returns exactly p.
C1_RoundTripEveryKey ==
    /\ (op = "Encrypt" => res.err = "nil")
    /\ (op = "Decrypt" /\ envSrc = "Encrypt" /\ dkey = key
            => res.err = "nil" /\ res.val = plain)

\* the part of C1 the code keeps: the round trip under a 64-byte key
RoundTrip64 ==
    /\ (op = "Encrypt" /\ Len(key.Key) = 64 => res.err = "nil")
    /\ (op = "Decrypt" /\ envSrc = "Encrypt" /\ dkey = key /\ Len(key.Key) = 64
            => res.err = "nil" /\ res.val = plain)

\* C2: an envelope Encrypt produced under a 64-byte key, with one bit of
\* its IV or of its ciphertext changed, makes Decrypt with that key fail
\* with the MAC-verification error; no plaintext is returned.
C2_TamperDetected ==
    op = "Decrypt" /\ envSrc \in {"TamperIV", "TamperData"}
        /\ Len(key.MacKey) > 0 /\ dkey = key
    => res.err = "hmac comparison failed" /\ res.val = <<>>

C2_Witness ==
    /\ op = "Decrypt" /\ envSrc = "TamperIV"
    /\ Len(key.Key) = 64 /\ dkey = key
    /\ env.IV # orig.IV /\ env.Data = orig.Data
    /\ res.err = "hmac comparison failed"

\* C3: Decrypt checks in a fixed order and stops at the first failure: the
\* algorithm tags (the legacy HMAC-tagged envelope with an unauthenticated
\* key first), then that the MAC is there when the key has an
\* authentication sub-key, then the MAC length, then the recomputed HMAC
\* over IV||ciphertext; AES-CBC runs only when all four pass.
C3_CheckOrder ==
    op = "Decrypt" =>
        LET tagOld == env.Key.EncryptionType = 1 /\ dkey.EncryptionType = 0
            tagBad == env.Key.EncryptionType # dkey.EncryptionType
            macMissing == Len(env.Hmac) = 0 /\ Len(dkey.MacKey) > 0
            lenBad == Len(env.Hmac) # Len(dkey.MacKey)
            macBad == HMACSum(env.IV \o env.Data, dkey.MacKey) # env.Hmac
        IN  /\ (tagOld => res.err = "unsupported old scheme")
            /\ (tagBad /\ ~tagOld => res.err = "bad encryption type")
            /\ (~tagBad /\ macMissing => res.err = "hmac value is missing")
            /\ (~tagBad /\ ~macMissing /\ lenBad => res.err = "hmac lengths differ")
            /\ (~tagBad /\ ~macMissing /\ ~lenBad /\ macBad
                    => res.err = "hmac comparison failed")
            /\ (res.aes <=> ~tagBad /\ ~macMissing /\ ~lenBad /\ ~macBad)

\* the MAC is missing, so its length and its value are wrong too, and the
\* error is the one of the presence check
C3_Witness ==
    /\ op = "Decrypt"
    /\ env.Key.EncryptionType = dkey.EncryptionType
    /\ Len(env.Hmac) = 0 /\ Len(dkey.MacKey) = 32
    /\ Len(env.IV) = 16 /\ Len(env.Data) > 0
    /\ res.err = "hmac value is missing" /\ ~res.aes

\* the pieces of a text that starts with a one-digit tag and a dot
PiecesAfterTag(t) == Split(SubSeq(t, 3, Len(t)), "|")

\* C4 as claimed: under a 64-byte key k, EncryptAsString(p, k) is the tag 2
\* and exactly 3 pieces; parsed and decrypted with k it gives p, and with
\* any other 64-byte key the MAC-verification error.
C4_AnyOtherKeyFails ==
    /\ (op = "EncryptAsString" /\ Len(key.Key) = 64
            => /\ res.err = "nil"
               /\ SubSeq(out, 1, 2) = <<"2", ".">>
               /\ Len(PiecesAfterTag(out)) = 3)
    /\ (op = "Reparse" /\ origSrc = "Encrypt" /\ Len(key.Key) = 64 => res.err = "nil")
    /\ (op = "Decrypt" /\ envSrc = "Reparse" /\ Len(key.Key) = 64 /\ dkey = key
            => res.err = "nil" /\ res.val = plain)
    /\ (op = "Decrypt" /\ envSrc = "Reparse" /\ Len(key.Key) = 64
            /\ Len(dkey.Key) = 64 /\ dkey # key
            => res.err = "hmac comparison failed")

\* C4 as amended: the MAC-verification error is what a 64-byte key with
\* another authentication sub-key gets.
C4_OtherMacKeyFails ==
    /\ (op = "EncryptAsString" /\ Len(key.Key) = 64
            => /\ res.err = "nil"
               /\ SubSeq(out, 1, 2) = <<"2", ".">>
               /\ Len(PiecesAfterTag(out)) = 3)
    /\ (op = "Reparse" /\ origSrc = "Encrypt" /\ Len(key.Key) = 64 => res.err = "nil")
    /\ (op = "Decrypt" /\ envSrc = "Reparse" /\ Len(key.Key) = 64 /\ dkey = key
            => res.err = "nil" /\ res.val = plain)
    /\ (op = "Decrypt" /\ envSrc = "Reparse" /\ Len(key.Key) = 64
            /\ Len(dkey.Key) = 64 /\ dkey.MacKey # key.MacKey
            => res.err = "hmac comparison failed")

C4_Witness ==
    /\ op = "Decrypt" /\ envSrc = "Reparse"
    /\ plain = DefaultCollection
    /\ key = Key64a /\ dkey = Key64b
    /\ res.err = "hmac comparison failed"

\* C5: the envelope Encrypt returns has a MAC exactly when the key has an
\* authentication sub-key: HMAC over IV||ciphertext under a 64-byte key, no
\* MAC and 2 pieces in the text under a 32-byte key.
C5_MacIffAuthKey ==
    /\ (op = "Encrypt" /\ res.err = "nil"
            => /\ (Len(env.Hmac) > 0 <=> Len(key.MacKey) > 0)
               /\ (Len(key.MacKey) > 0
                    => env.Hmac = HMACSum(env.IV \o env.Data, key.MacKey)))
    /\ (op = "EncryptAsString" /\ Len(key.MacKey) = 0
            => res.err = "nil" /\ Len(PiecesAfterTag(out)) = 2)

\* C6: DecryptEncryptionKey decrypts an envelope of tag 0 with the
\* prelogin key as given, and returns the contained key when the envelope
\* was encrypted under that prelogin key; it decrypts an envelope of tag 2
\* with the stretched prelogin key; every other tag is an
\* unsupported-key-scheme error and Decrypt is not called.
C6_DispatchOnTag ==
    op = "DecryptEncryptionKey" /\ NewFromEncryptedValue(text).err = "nil" =>
        LET t == NewFromEncryptedValue(text).val.Key.EncryptionType
            legacyOfKey ==
                /\ peer.kind = "peer" /\ peer.tag \in {<<"0", ".">>, <<>>}
                /\ peer.iv = "good" /\ peer.data = "good" /\ peer.mac = "none"
                /\ key = dkey
        IN  /\ (t = 0 => res.with = dkey)
            /\ (t = 0 /\ legacyOfKey
                    => res.err = "nil" /\ res.val = NewFromRawBytes(plain).val)
            /\ (t = 2 => res.with = StretchKey(dkey))
            /\ (t \notin {0, 2}
                    => res.err = "unsupported encryption key type" /\ res.with = NilKey)

\* the same tag, IV, ciphertext and MAC
SameFields(a, b) ==
    /\ a.Key.EncryptionType = b.Key.EncryptionType
    /\ a.IV = b.IV
    /\ a.Data = b.Data
    /\ a.Hmac = b.Hmac

\* C7: for every envelope e the library builds (by Encrypt under a 32-byte
\* or a 64-byte key, or an RSA-scheme envelope without IV and MAC),
\* parsing String(e) succeeds and gives the tag, IV, ciphertext and MAC of e.
C7_ParseOfString ==
    op = "Reparse" /\ origSrc \in {"Encrypt", "New"}
        => res.err = "nil" /\ SameFields(res.val, orig)

\* a text without a tag prefix
Untagged(t) == \A i \in 1..Len(t) : t[i] # "."

\* C8: String always writes "<tag>." first, leaves the IV piece out exactly
\* when the IV is empty and the MAC piece exactly when the MAC is empty, and
\* the text String gives for an envelope parsed from untagged text parses
\* again to the same tag and fields.
C8_SerializeTagged ==
    /\ (op = "String" =>
            LET h == Split(out, ".")
            IN  /\ Len(h) = 2
                /\ h[1] = Sprintf_d(env.Key.EncryptionType)
                /\ Len(Split(h[2], "|")) =
                        1 + (IF Len(env.IV) > 0 THEN 1 ELSE 0)
                          + (IF Len(env.Hmac) > 0 THEN 1 ELSE 0))
    /\ (op = "Reparse" /\ origSrc = "Parse" /\ Untagged(text)
            => res.err = "nil" /\ SameFields(res.val, orig))

\* the reading of a text: the tag before the only dot, else the tag the
\* piece count implies
TextTagged(t) == Len(Split(t, ".")) = 2

TextPieces(t) == IF TextTagged(t) THEN Split(Split(t, ".")[2], "|") ELSE Split(t, "|")

TextTag(t) ==
    IF TextTagged(t) THEN ParseInt(Split(t, ".")[1])
    ELSE [ok |-> TRUE, val |-> IF Len(TextPieces(t)) = 3 THEN 1 ELSE 0]

\* the piece count the claims give for a tag
ClaimedPieces(t) == IF t \in {3, 4} THEN 1 ELSE IF t = 0 THEN 2 ELSE 3

\* C9: a text is accepted only with 1 piece under an RSA tag, 2 under the
\* unauthenticated AES-CBC tag, 3 under an HMAC-authenticated tag; without
\* a tag prefix 3 pieces mean tag 1 and 2 pieces tag 0; every other piece
\* count and every unknown tag is an error, and no envelope is returned.
C9_PieceCountByTag ==
    op = "Parse" =>
        LET n == Len(TextPieces(text))
            t == res.val.Key.EncryptionType
        IN  /\ (res.err = "nil" =>
                    /\ t \in 0..4
                    /\ TextTag(text).ok /\ TextTag(text).val = t
                    /\ n = ClaimedPieces(t)
                    /\ (~TextTagged(text) => (n = 3 /\ t = 1) \/ (n = 2 /\ t = 0)))
            /\ (res.err # "nil" => res.val = NilEncString)
            /\ (TextTag(text).ok /\ TextTag(text).val \notin 0..4 => res.err # "nil")

\* an RSA tag with two decodable pieces is refused
C9_Witness ==
    /\ op = "Parse"
    /\ text = <<"4", ".", "Q", "U", "J", "D", "|", "Q", "U", "J", "D">>
    /\ res.err = "bad amount of pieces"
    /\ res.val = NilEncString

Base64Errors ==
    { "unable to base64 decode IV", "unable to base64 decode data",
      "unable to base64 decode hmac" }

\* C10: the empty text, and no other, gets the empty-envelope error; a wrong
\* piece count and an undecodable piece get different errors, and a text
\* with both gets the piece-count error.
C10_ParseErrors ==
    op = "Parse" =>
        LET n == Len(TextPieces(text))
            known == TextTag(text).ok /\ TextTag(text).val \in 0..4
            want == ClaimedPieces(TextTag(text).val)
            undec == \E i \in 1..n : ~DecodeString(TextPieces(text)[i]).ok
        IN  /\ (res.err = "supposedly encrypted string is empty" <=> text = <<>>)
            /\ (text # <<>> /\ known /\ n # want => res.err = "bad amount of pieces")
            /\ (text # <<>> /\ known /\ n = want /\ undec => res.err \in Base64Errors)
            /\ (res.err = "bad amount of pieces" => known /\ n # want)
            /\ (res.err \in Base64Errors => undec)
            /\ "bad amount of pieces" \notin Base64Errors

\* a wrong piece count together with an undecodable first piece
C10_Witness ==
    /\ op = "Parse"
    /\ text = <<"2", ".", "!", "A", "A", "A", "|", "Q", "U", "J", "D">>
    /\ res.err = "bad amount of pieces"

\* C11: whenever Decrypt has verified the MAC and decrypted the ciphertext,
\* a final byte of the decrypted buffer that is 0 or greater than the block
\* size gives a padding error, for buffers of every length; any other final
\* byte is the number of trailing bytes Decrypt strips.
DecryptedBuffer == CBCDecrypt(dkey.EncryptionKey, env.IV, env.Data)

C11_PaddingValidated ==
    (op = "Decrypt" /\ peer.kind = "raw" /\ res.aes /\ res.err # "panic") =>
        LET buf == DecryptedBuffer
            last == buf[Len(buf)]
        IN  IF last = 0 \/ last > BlockSize
            THEN res.err = "error aes256Decoding"
            ELSE res.err = "nil" /\ res.val = SubSeq(buf, 1, Len(buf) - last)

\* C12: with SafeMode on, an envelope Encrypt returned decrypts under the
\* same key to the plaintext; when the envelope Encrypt built does not
\* (Decrypt errors or gives other bytes), Encrypt returns an error and no
\* envelope.
C12_SafeModeSelfCheck ==
    (op = "Encrypt" /\ SafeMode) =>
        /\ res.err = "nil" =>
                /\ Decrypt(res.val, key).err = "nil"
                /\ Decrypt(res.val, key).val = plain
        /\ res.err # "nil" => res.val = NilEncString
        /\ \A iv \in RandomIVs :
                LET built == Encrypt(plain, key, iv, FALSE)
                    back == Decrypt(built.val, key)
                    safe == Encrypt(plain, key, iv, TRUE)
                IN  (built.err = "nil" /\ (back.err # "nil" \/ back.val # plain)) =>
                        (safe.err # "nil" /\ safe.val = NilEncString)

C12_Witness ==
    /\ op = "Decrypt"
    /\ SafeMode
    /\ envSrc = "Encrypt"
    /\ dkey = key
    /\ key = Key64b
    /\ Len(plain) = BlockSize
    /\ res.err = "nil"
    /\ res.val = plain

\* C13: Encrypt returns an error and no envelope for an empty plaintext
\* and for a key whose encryption sub-key is empty, and performs no cipher
\* and no HMAC operation in either case.
C13_EncryptRejectsEmpty ==
    (op = "Encrypt" /\ (Len(plain) = 0 \/ Len(key.EncryptionKey) = 0)) =>
        /\ res.err \in {"trying to encrypt nothing", "no encryption key was provided"}
        /\ res.val = NilEncString
        /\ envSrc = "none"
        /\ res.ops = <<>>

C13_Witness ==
    /\ op = "Encrypt"
    /\ Len(plain) > 0
    /\ key \in EmptyKeys
    /\ Len(key.MacKey) > 0
    /\ res.err = "no encryption key was provided"
    /\ res.ops = <<>>

\* C14: a symmetric key is only built from exactly 32 or 64 raw bytes:
\* DecryptEncryptionKey returns an error and no key when the decrypted key
\* material has another length, and EncryptEncryptionKey returns an error,
\* no key and no envelope for a wrapping key of another raw length.
C14_KeyLengths ==
    /\ (op \in {"DecryptEncryptionKey", "EncryptEncryptionKey", "GenerateEncryptionKey"}
            /\ res.err = "nil") => Len(res.val.Key) \in {32, 64}
    /\ (op = "DecryptEncryptionKey" /\ peer.kind = "keyenv" /\ dkey = key
            /\ Len(plain) \notin {32, 64}) =>
                /\ res.err = "unsupported decryption encryption key"
                /\ res.val = NilKey
    /\ (op \in {"EncryptEncryptionKey", "GenerateEncryptionKey"}
            /\ Len(key.Key) \notin {32, 64}) =>
                /\ res.err = "invalid symmetric key length"
                /\ res.val = NilKey
                /\ res.text = <<>>

C14_Witness ==
    /\ op = "DecryptEncryptionKey"
    /\ peer.kind = "keyenv"
    /\ dkey = key
    /\ Len(plain) = 65
    /\ res.err = "unsupported decryption encryption key"

\* C15: for a wrapping key of 32 or 64 raw bytes GenerateEncryptionKey
\* returns the 64-byte authenticated key of the fresh random bytes and an
\* envelope whose plaintext is those bytes, made under the stretched
\* wrapping key exactly when the wrapping key has 32 bytes and under the
\* wrapping key itself when it has 64.
C15_GenerateEncryptionKey ==
    (op = "GenerateEncryptionKey" /\ Len(key.Key) \in {32, 64}) =>
        LET e == NewFromEncryptedValue(res.text)
            stretched == Decrypt(e.val, StretchKey(key))
            direct == Decrypt(e.val, key)
        IN  /\ res.err = "nil"
            /\ res.val.Key = plain
            /\ Len(res.val.Key) = 64
            /\ res.val.EncryptionType = AesCbc256_HmacSha256_B64
            /\ Len(res.val.MacKey) = 32
            /\ e.err = "nil"
            /\ IF Len(key.Key) = 32
               THEN /\ res.with = StretchKey(key)
                    /\ stretched.err = "nil" /\ stretched.val = res.val.Key
                    /\ direct.err # "nil"
               ELSE /\ res.with = key
                    /\ direct.err = "nil" /\ direct.val = res.val.Key
                    /\ stretched.err # "nil"

C15_Witness ==
    /\ op = "DecryptEncryptionKey"
    /\ peer.kind = "wrapped"
    /\ key = Key32a
    /\ dkey = key
    /\ plain = Raw64b
    /\ res.err = "nil"
    /\ res.val.Key = plain

\* a step that is one call of the user authentication
UserAuthCall ==
    /\ client.impl # "none"
    /\ world' = world
    /\ flow'.op \in {"ensureValidAuth", "ensureUserAuth"}

\* the stage s is among the stages the call recorded in f performed
Performed(f, s) == \E i \in 1..Len(f.steps) : f.steps[i] = s

\* C16: a user authentication flow that fails at any of its steps leaves
\* the client's cached access token and private key exactly as they were
\* before the call; a flow that runs to its end stores the access token of
\* the login response it processed together with the private key of that
\* response; a call that runs no flow changes neither.
C16_AuthFrame ==
    [][UserAuthCall =>
        IF flow'.err # "nil" \/ flow'.steps = <<>>
        THEN /\ client'.accessToken = client.accessToken
             /\ client'.privateKey = client.privateKey
        ELSE /\ client'.accessToken = flow'.token
             /\ ~client'.accessToken.empty
             /\ client'.privateKey = "rsa"]_vars

C16_Witness ==
    /\ flow.op \in {"ensureValidAuth", "ensureUserAuth"}
    /\ FailedStage(flow) = "DecryptPrivateKey"
    /\ ~client.accessToken.empty
    /\ client.privateKey = "rsa"
    /\ ~flow.token.empty
    /\ flow.token # client.accessToken

\* C17: every user authentication flow that derives a prelogin key has
\* sent its own prelogin request immediately before the derivation, so the
\* key comes from the KDF parameters of that response.
C17_FreshPrelogin ==
    \A i \in 1..Len(flow.steps) :
        flow.steps[i] = "BuildPreloginKey" => (i > 1 /\ flow.steps[i - 1] = "Prelogin")

\* the stages that obtain key material, in their order
KeyStages == << "BuildPreloginKey", "DecryptEncryptionKey", "DecryptPrivateKey" >>

\* C18: when a flow failed at a key stage and the KDF parameters of the
\* account are still those of the failed call, the next authentication
\* attempt performs none of the key stages that precede the failing one.
C18_ResumeFromFailingStage ==
    [][(UserAuthCall /\ flow.kdfWorld = world.kdf /\ flow'.steps # <<>>) =>
        \A j \in 1..Len(KeyStages) : \A i \in 1..(j - 1) :
            FailedStage(flow) = KeyStages[j] => ~Performed(flow', KeyStages[i])]_vars

\* C19: no call of CreateOrganization ends in an abort of the process.
C19_NoPanic == flow.op = "CreateOrganization" => flow.err # "panic"

\* the path starts with "/admin"
StartsWithAdmin(path) ==
    /\ Len(path) >= 6
    /\ \A i \in 1..6 : path[i] = <<"/", "a", "d", "m", "i", "n">>[i]

\* C20: every request a call sends to the caller's path carries the admin
\* cookie when the path starts with "/admin" and the bearer token when it
\* does not; a call for a path that starts with "/admin" on a client
\* without admin token returns the authentication error and sends nothing.
C20_AuthByPath ==
    flow.op = "doRequest" =>
        /\ \A i \in 1..Len(flow.sent) :
            flow.sent[i].to = "api" =>
                /\ flow.sent[i].path = flow.path
                /\ flow.sent[i].auth = IF StartsWithAdmin(flow.path) THEN "cookie" ELSE "bearer"
        /\ (StartsWithAdmin(flow.path) /\ ~client.adminToken) =>
                (flow.err = "authentication failed" /\ flow.sent = <<>>)

C20_Witness ==
    /\ flow.op = "doRequest"
    /\ client.adminToken
    /\ flow.path = <<"/", "a", "d", "m", "i", "n", "/", "u", "s", "e", "r", "s">>
    /\ flow.err = "nil"
    /\ Len(flow.sent) = 4
    /\ flow.sent[4].to = "api"
    /\ flow.sent[4].auth = "cookie"

\* the credentials a call of Configure had, from the configuration or from
\* the environment
ProvCredentials ==
    { a \in ProviderAttributes \ {"Endpoint"} :
        FromEnvOrConfig(prov.data, prov.environ, a) # "" }

\* the combinations the README lists as valid and as invalid
ReadmeValid ==
    { {"Email", "MasterPassword"},
      {"Email", "MasterPassword", "AdminToken"},
      {"Email", "MasterPassword", "ClientID", "ClientSecret"},
      {"AdminToken"} }

ReadmeInvalid == { {"ClientID", "ClientSecret"}, {"Email"} }

\* C21: with an endpoint given, Configure accepts every combination of
\* credentials the README lists as valid and rejects the ones it lists as
\* invalid, whether a value comes from the configuration or from its
\* environment variable, a configured value overriding the environment.
C21_ReadmeCombinations ==
    (/\ prov.op \in {"Configure", "ConfigureAdminOrUser"}
     /\ \A a \in ProviderAttributes : ~prov.data[a].unknown
     /\ FromEnvOrConfig(prov.data, prov.environ, "Endpoint") # "")
        => /\ ProvCredentials \in ReadmeValid => prov.client
           /\ ProvCredentials \in ReadmeInvalid => ~prov.client

\* the requests for the caller's path among the requests of a call
ApiSends(f) == { i \in 1..Len(f.sent) : f.sent[i].to = "api" }

\* C22: a call of Get / Post / Put / Delete re-authenticates before it
\* sends the request again and sends the request at most twice, also when
\* the server answers 401 to every send.
C22_RetryOnce ==
    flow.op = "doRequest"
        => /\ \A i \in ApiSends(flow) : i < Len(flow.sent) => flow.sent[i + 1].to # "api"
           /\ Cardinality(ApiSends(flow)) <= 2

\* the fields goroutine g is about to read, and about to write
GoReads(g) == ReadsAt(conc.pc[g], conc.kind[g])
GoWrites(g) == WritesAt(conc.pc[g], conc.kind[g], conc.err[g])

\* C23: with several goroutines calling the client, no goroutine is about
\* to read accessToken, privateKey or adminCookie while another goroutine
\* is about to write the same field (every such read and write being made
\* with the mutex held).
C23_AuthStateUnderMutex ==
    \A g \in Goroutines : \A h \in Goroutines \ {g} : GoReads(g) \cap GoWrites(h) = {}

\* a token the client takes for valid at the time now
TokenValidAt(t, now) == ~t.empty /\ t.jwt /\ t.iat <= now /\ now <= t.exp

\* the goroutines whose login requests are in flight
InLogin(c) == { g \in Goroutines : c.pc[g] = "login" }

C25_NeverAborts ==
    op \in {"Decrypt", "DecryptEncryptionKey"} => res.err # "panic"

\* C26: registration and login agree on the key wrapping: for every
\* 32-byte prelogin key k, when GenerateEncryptionKey(k) returned newKey and
\* an envelope text, DecryptEncryptionKey of that text with k succeeds and
\* returns a key with the raw bytes of newKey.
C26_WrapAgreement ==
    [][(/\ op = "GenerateEncryptionKey"
        /\ op' = "DecryptEncryptionKey"
        /\ Len(key.Key) = 32
        /\ res.err = "nil"
        /\ dkey' = key) =>
            /\ res'.err = "nil"
            /\ res'.val.Key = res.val.Key
            /\ res'.val = res.val]_vars

C26_Witness ==
    /\ op = "DecryptEncryptionKey"
    /\ peer.kind = "wrapped"
    /\ key = Key32b
    /\ dkey = key
    /\ plain = Raw64a
    /\ text = GenerateEncryptionKey(Key32b, Raw64a, MkBytes(91, IVLen), SafeMode).text
    /\ res.err = "nil"
    /\ res.val.Key = Raw64a

\* C27 (as stated): the organization-secret cache gets or changes an entry
\* for organization X only in a CreateOrganization call whose request
\* succeeded and returned ID X, the entry's key being the shared key that
\* encrypted the collection name in that call; a failed CreateOrganization
\* leaves the cache unchanged; CreateOrganizationCollection and
\* UpdateOrganizationCollection for an organization without an entry fail
\* and send no request.
CacheEntryFromCreate ==
    \A id \in DOMAIN client'.Organizations :
        (id \notin DOMAIN client.Organizations
            \/ client'.Organizations[id] # client.Organizations[id]) =>
                /\ flow'.op = "CreateOrganizationAndCache"
                /\ flow'.err = "nil"
                /\ flow'.status \in 200..299
                /\ flow'.orgID = id
                /\ client'.Organizations[id] = flow'.nameKey

FailedCreateKeepsCache ==
    (flow'.op = "CreateOrganizationAndCache" /\ flow'.err # "nil") =>
        client'.Organizations = client.Organizations

CollectionCall ==
    /\ flow'.op \in {"CreateOrganizationCollection", "UpdateOrganizationCollection"}
    /\ flow'.orgID \notin DOMAIN client.Organizations

C27_CacheNoRequest ==
    [][/\ CacheEntryFromCreate
       /\ FailedCreateKeepsCache
       /\ CollectionCall => (flow'.err # "nil" /\ flow'.sent = <<>>)]_vars

\* C27 (amended): as above, but the collection calls authenticate first:
\* without a cache entry they fail having sent at most the prelogin and
\* login requests of the authentication, and no collection request.
C27_CacheNoCollectionRequest ==
    [][/\ CacheEntryFromCreate
       /\ FailedCreateKeepsCache
       /\ CollectionCall =>
            /\ flow'.err # "nil"
            /\ \A i \in 1..Len(flow'.sent) : flow'.sent[i].to \in {"prelogin", "token"}]_vars

C27_Witness ==
    /\ flow.op = "UpdateOrganizationCollection"
    /\ flow.orgID = "org2"
    /\ flow.err = "organization not found in cache"
    /\ flow.sent # <<>>
    /\ DOMAIN client.Organizations = {"org1"}
    /\ client.Organizations["org1"] = NewFromRawBytes(Raw64a).val

\* C28: once an admin login has stored a VW_ADMIN cookie, a later request
\* to an admin path made before the cookie expires is sent with that cookie
\* and without an admin login before it; a session cookie, which carries no
\* expiry time, does not expire.
CookieNotExpired(c, now) ==
    /\ ~c.adminCookie.nil
    /\ (c.adminCookie.expires = ZeroTime \/ now < c.adminCookie.expires)

C28_AdminCookieReused ==
    [][(/\ CookieNotExpired(client, world.now)
        /\ flow'.op = "doRequest"
        /\ requiresAuth(flow'.path) = "AuthMethodAdmin") =>
            /\ flow'.sent # <<>>
            /\ flow'.sent[1] = MkRequest("api", flow'.path, "cookie")]_vars

\* C29: registering an account that already exists fails with a "user
\* already exists" error: when the account of the plan's email and password
\* exists, the server answers every request and the key generation
\* succeeds, Create reports "User already exists" after
\* its login attempt, sends no register request and writes nothing to the
\* Terraform state.
C29_ExistingAccountRejected ==
    (/\ prov.op = "AccountRegister.Create"
     /\ prov.existed
     /\ \A f \in DOMAIN prov.env : prov.env[f]) =>
        /\ prov.diags = <<"User already exists">>
        /\ \A i \in 1..Len(prov.sent) : prov.sent[i].to # "register"
        /\ ~prov.wrote

\* C30: for UserOrgType (Owner, Admin, User, Manager) and UserOrgStatus
\* (Revoked, Invited, Accepted, Confirmed), FromString(String(v)) restores v
\* for each of the four defined values, String returns "Unknown" for every
\* other value, and FromString on a string outside the four names returns
\* an error and leaves the receiver unchanged.
EnumNames(kind) ==
    IF kind = "UserOrgType" THEN {"Owner", "Admin", "User", "Manager"}
    ELSE {"Revoked", "Invited", "Accepted", "Confirmed"}

EnumDefined(kind) == IF kind = "UserOrgType" THEN 0..3 ELSE (0 - 1)..2

C30_EnumRoundTrip ==
    /\ enum.op = "String" =>
        IF enum.v \in EnumDefined(enum.kind) THEN enum.s \in EnumNames(enum.kind)
        ELSE enum.s = "Unknown"
    /\ (enum.op = "FromString" /\ enum.ofString /\ enum.v \in EnumDefined(enum.kind)) =>
        /\ enum.err = "nil"
        /\ enum.after = enum.v
    /\ (enum.op = "FromString" /\ enum.s \notin EnumNames(enum.kind)) =>
        /\ enum.err # "nil"
        /\ enum.after = enum.before

C30_Witness ==
    /\ enum.op = "FromString"
    /\ enum.kind = "UserOrgStatus"
    /\ enum.ofString
    /\ enum.v = UserOrgStatusRevoked
    /\ enum.before = UserOrgStatusConfirmed
    /\ enum.after = UserOrgStatusRevoked
    /\ enum.err = "nil"

====
